---- MODULE Spec2Model ----
(***************************************************************************)
(* Turn-execution engine of local-coder: the terminal host (agent.ts) and  *)
(* the server host (server.ts).  Texts are sequences of lexical tokens,    *)
(* histories are heap objects referenced by sessions and by the turns      *)
(* that run against them.                                                  *)
(***************************************************************************)
EXTENDS Integers, Sequences, FiniteSets, Bags, TLC

(* ------------------------------ bounds -------------------------------- *)
MaxTurns == 2
MaxRequests == 2
MaxChunks == 2
MaxFragments == 3
MaxCalls == 2

(* ------------------------- tokens and texts --------------------------- *)
\* A text is a sequence of tokens.  The tokens are the lexical units the two
\* regular expressions of parseTextToolCalls and JSON.parse tell apart.
FENCE == "<fence>"
LBRACE == "{"
RBRACE == "}"
COMMA == ","
WS == " "
ARGKEY == "\"arguments\":"
KV == "\"k\":1"
JNULL == "null"
WORD == "done"

ToolNames == {"list_files", "read_file", "write_file", "run_shell_command"}
TextNames == ToolNames \cup {"frobnicate"}

NameTok(n) == "\"name\":\"" \o n \o "\""
IsNameTok(t) == \E n \in TextNames : t = NameTok(n)
NameOf(t) == CHOOSE n \in TextNames : t = NameTok(n)

Max(a, b) == IF a >= b THEN a ELSE b

\* the value of `x || null` for a text x
Null == <<"<null>">>
OrNull(text) == IF text = <<>> THEN Null ELSE text

(* ------------------------------ JSON.parse ---------------------------- *)
RECURSIVE StripWs(_)
StripWs(t) ==
    IF t = <<>> THEN <<>>
    ELSE IF Head(t) = WS THEN StripWs(Tail(t))
    ELSE <<Head(t)>> \o StripWs(Tail(t))

Tok(t, i) == IF i >= 1 /\ i <= Len(t) THEN t[i] ELSE "<eof>"

\* ParseValue(t, i) is the position after the JSON value that starts at i,
\* or 0 when no value starts there.
RECURSIVE ParseValue(_, _)
RECURSIVE ParseMembers(_, _)
ParseMember(t, i) ==
    IF Tok(t, i) = KV \/ IsNameTok(Tok(t, i)) THEN i + 1
    ELSE IF Tok(t, i) = ARGKEY THEN ParseValue(t, i + 1)
    ELSE 0

ParseMembers(t, i) ==
    LET j == ParseMember(t, i) IN
    IF j = 0 THEN 0
    ELSE IF Tok(t, j) = RBRACE THEN j + 1
    ELSE IF Tok(t, j) = COMMA THEN ParseMembers(t, j + 1)
    ELSE 0

ParseValue(t, i) ==
    IF Tok(t, i) = JNULL THEN i + 1
    ELSE IF Tok(t, i) = LBRACE
         THEN IF Tok(t, i + 1) = RBRACE THEN i + 2 ELSE ParseMembers(t, i + 1)
    ELSE 0

\* a parser that reads the empty text as an empty object
JsonParses_EmptyIsObject(text) ==
    LET u == StripWs(text) IN u = <<>> \/ ParseValue(u, 1) = Len(u) + 1

\* JSON.parse(text) does not throw
JsonParses(text) ==
    LET u == StripWs(text) IN ParseValue(u, 1) = Len(u) + 1

\* JSON.parse(text) is null: reading a property of it throws a TypeError
JsonIsNull(text) == StripWs(text) = <<JNULL>>

(* ----------------------------- tool calls ----------------------------- *)
\* StreamedToolCall {id, function: {name, arguments}}
ToolCall(id, name, arguments) == [id |-> id, name |-> name, arguments |-> arguments]

\* an empty slot of a sparse JavaScript array; reading it yields undefined
Hole == [id |-> "<empty>", name |-> "<empty>", arguments |-> <<"<empty>">>]

\* arr[index] = v on a JavaScript array (index counts from 0): the array grows
\* to index + 1 and the slots skipped stay empty
ArraySet(arr, index, v) ==
    [k \in 1..Max(Len(arr), index + 1) |->
        IF k = index + 1 THEN v
        ELSE IF k <= Len(arr) THEN arr[k]
        ELSE Hole]

\* !arr[index]
ArrayMissing(arr, index) == index + 1 > Len(arr) \/ arr[index + 1] = Hole

(* -------------------------- delta accumulator ------------------------- *)
\* A tool-call fragment: index, and id, name, arguments when present ("" and
\* <<>> are what JavaScript takes as absent).
Fragment(index, id, name, arguments) ==
    [index |-> index, id |-> id, name |-> name, arguments |-> arguments]

\* A chunk's delta: content and tool_calls.
Delta(content, fragments) == [content |-> content, tool_calls |-> fragments]

\* the accumulation state of one response
NewAccum == [fullContent |-> <<>>, toolCalls |-> <<>>, currentToolCallIndex |-> -1]

\* an accumulator that assigns the name and the arguments where the code appends
ApplyFragment_Overwrites(acc, f) ==
    LET index == f.index
        fresh == index # acc.currentToolCallIndex /\ ArrayMissing(acc.toolCalls, index)
        tc0 == IF fresh
               THEN ArraySet(acc.toolCalls, index, ToolCall(f.id, "", <<>>))
               ELSE acc.toolCalls
        old == tc0[index + 1]
        new == ToolCall(IF f.id # "" THEN f.id ELSE old.id,
                        IF f.name # "" THEN f.name ELSE old.name,
                        IF f.arguments # <<>> THEN f.arguments ELSE old.arguments)
    IN  [acc EXCEPT !.currentToolCallIndex = index,
                    !.toolCalls = ArraySet(tc0, index, new)]

\* an accumulator that keeps the first id a call was given
ApplyFragment_FirstIdWins(acc, f) ==
    LET index == f.index
        fresh == index # acc.currentToolCallIndex /\ ArrayMissing(acc.toolCalls, index)
        tc0 == IF fresh
               THEN ArraySet(acc.toolCalls, index, ToolCall(f.id, "", <<>>))
               ELSE acc.toolCalls
        old == tc0[index + 1]
        new == ToolCall(IF old.id = "" THEN f.id ELSE old.id,
                        old.name \o f.name,
                        old.arguments \o f.arguments)
    IN  [acc EXCEPT !.currentToolCallIndex = index,
                    !.toolCalls = ArraySet(tc0, index, new)]

\* an accumulator that starts a new record whenever the index changes
ApplyFragment_NewOnSwitch(acc, f) ==
    LET index == f.index
        fresh == index # acc.currentToolCallIndex
        tc0 == IF fresh
               THEN ArraySet(acc.toolCalls, index, ToolCall(f.id, "", <<>>))
               ELSE acc.toolCalls
        old == tc0[index + 1]
        new == ToolCall(IF f.id # "" THEN f.id ELSE old.id,
                        old.name \o f.name,
                        old.arguments \o f.arguments)
    IN  [acc EXCEPT !.currentToolCallIndex = index,
                    !.toolCalls = ArraySet(tc0, index, new)]

\* the body of `for (const toolCallDelta of delta.tool_calls)`
ApplyFragment(acc, f) ==
    LET index == f.index
        fresh == index # acc.currentToolCallIndex /\ ArrayMissing(acc.toolCalls, index)
        tc0 == IF fresh
               THEN ArraySet(acc.toolCalls, index, ToolCall(f.id, "", <<>>))
               ELSE acc.toolCalls
        old == tc0[index + 1]
        new == ToolCall(IF f.id # "" THEN f.id ELSE old.id,
                        old.name \o f.name,
                        old.arguments \o f.arguments)
    IN  [acc EXCEPT !.currentToolCallIndex = index,
                    !.toolCalls = ArraySet(tc0, index, new)]

RECURSIVE ApplyFragments(_, _)
ApplyFragments(acc, fs) ==
    IF fs = <<>> THEN acc
    ELSE ApplyFragments(ApplyFragment(acc, Head(fs)), Tail(fs))

\* the body of `for await (const chunk of stream)` in the turn engine
ApplyDelta(acc, delta) ==
    ApplyFragments([acc EXCEPT !.fullContent = acc.fullContent \o delta.content],
                   delta.tool_calls)

(* ---------------------- fallback tool-call extractor ------------------ *)
TextToolId(k) == "text-tool-" \o ToString(k)

\* the first position from i on that holds no whitespace
RECURSIVE SkipWs(_, _)
SkipWs(t, i) == IF Tok(t, i) = WS THEN SkipWs(t, i + 1) ELSE i

\* the position of the first token tok after position s, Len(t) + 1 when none
RECURSIVE NextTok(_, _, _)
NextTok(t, s, tok) ==
    IF s + 1 > Len(t) THEN Len(t) + 1
    ELSE IF t[s + 1] = tok THEN s + 1
    ELSE NextTok(t, s + 1, tok)

SetMax(S) == CHOOSE x \in S : \A y \in S : y <= x
SetMin(S) == CHOOSE x \in S : \A y \in S : x <= y

NoMatch == [found |-> FALSE, name |-> "", args |-> <<>>, end |-> 0]

\* codeBlockRegex matched at position s.  [^`]* is greedy: of the name, the
\* "arguments" key and the closing brace, the regex takes the last ones that
\* still leave a match, all before the next fence (position lim).
ArgsStart(t, a) == SkipWs(t, a + 1)

\* the closing braces the arguments after key a may end with
ArgsEnds(t, lim, a) ==
    IF Tok(t, ArgsStart(t, a)) = LBRACE /\ ArgsStart(t, a) < lim
    THEN {e \in (ArgsStart(t, a) + 1)..(lim - 1) : t[e] = RBRACE}
    ELSE {}

\* the "arguments" keys that may follow name n, and the names after the brace p
ArgKeys(t, lim, n) == {a \in (n + 1)..(lim - 1) : t[a] = ARGKEY /\ ArgsEnds(t, lim, a) # {}}
Names(t, lim, p) == {n \in (p + 1)..(lim - 1) : IsNameTok(t[n]) /\ ArgKeys(t, lim, n) # {}}

CodeBlockMatch(t, n, a, e) ==
    [found |-> TRUE, name |-> NameOf(t[n]), args |-> SubSeq(t, ArgsStart(t, a), e), end |-> e]
LastArgs(t, lim, n, a) == CodeBlockMatch(t, n, a, SetMax(ArgsEnds(t, lim, a)))
LastKey(t, lim, n) == LastArgs(t, lim, n, SetMax(ArgKeys(t, lim, n)))

CodeBlockIn(t, s, p, lim) ==
    IF Tok(t, s) = FENCE /\ Tok(t, p) = LBRACE /\ p < lim /\ Names(t, lim, p) # {}
    THEN LastKey(t, lim, SetMax(Names(t, lim, p)))
    ELSE NoMatch

CodeBlockAt(t, s) == CodeBlockIn(t, s, SkipWs(t, s + 1), NextTok(t, s, FENCE))

\* jsonRegex matched at position s: c, k, b and e are the positions of the
\* comma, the "arguments" key, the opening brace of the arguments and the
\* first closing brace after it
JsonShape(t, s, c, k, b, e) ==
    IF /\ Tok(t, s) = LBRACE /\ IsNameTok(Tok(t, s + 1))
       /\ Tok(t, c) = COMMA /\ Tok(t, k) = ARGKEY /\ Tok(t, b) = LBRACE
       /\ e >= b + 2 /\ Tok(t, e) = RBRACE /\ Tok(t, e + 1) = RBRACE
    THEN [found |-> TRUE, name |-> NameOf(t[s + 1]),
          args |-> SubSeq(t, b, e), end |-> e + 1]
    ELSE NoMatch
JsonArgs(t, s, c, k, b) == JsonShape(t, s, c, k, b, NextTok(t, b, RBRACE))
JsonKey(t, s, c, k) == JsonArgs(t, s, c, k, SkipWs(t, k + 1))
JsonComma(t, s, c) == JsonKey(t, s, c, SkipWs(t, c + 1))
JsonAt(t, s) == JsonComma(t, s, SkipWs(t, s + 2))

\* regex.exec(content) with lastIndex at s, for one of the two patterns
MatchAt(regex, t, s) == IF regex = "codeBlockRegex" THEN CodeBlockAt(t, s) ELSE JsonAt(t, s)

\* the positions from `from` on at which the pattern matches
Starts(regex, t, from) == {s \in from..Len(t) : MatchAt(regex, t, s).found}

\* a loop body that counts every match, kept or not
Accept_CountsEveryMatch(m, st) ==
    IF JsonParses(m.args)
    THEN [calls |-> Append(st.calls, ToolCall(TextToolId(st.id), m.name, m.args)),
          id |-> st.id + 1]
    ELSE [st EXCEPT !.id = @ + 1]

\* a loop body that keeps the match without validating its arguments
Accept_KeepsUnparsed(m, st) ==
    [calls |-> Append(st.calls, ToolCall(TextToolId(st.id), m.name, m.args)),
     id |-> st.id + 1]

\* the body of the while loop: the match is kept when its arguments parse;
\* st = [calls, id]
Accept(m, st) ==
    IF JsonParses(m.args)
    THEN [calls |-> Append(st.calls, ToolCall(TextToolId(st.id), m.name, m.args)),
          id |-> st.id + 1]
    ELSE st

\* `while ((match = regex.exec(content)) !== null)`: the matches are taken left
\* to right, each search starting after the previous match
RECURSIVE ExecLoop(_, _, _, _)
ExecFrom(regex, t, m, st) == ExecLoop(regex, t, m.end + 1, Accept(m, st))
ExecFirst(regex, t, starts, st) ==
    IF starts = {} THEN st ELSE ExecFrom(regex, t, MatchAt(regex, t, SetMin(starts)), st)
ExecLoop(regex, t, from, st) == ExecFirst(regex, t, Starts(regex, t, from), st)

\* lines 493-510: the second pattern is tried when the first gave no call
JsonPass(content, st1) ==
    IF Len(st1.calls) = 0 THEN ExecLoop("jsonRegex", content, 1, st1).calls ELSE st1.calls

parseTextToolCalls(content) ==
    JsonPass(content, ExecLoop("codeBlockRegex", content, 1, [calls |-> <<>>, id |-> 0]))

\* lines 334-340: the finalized tool-call list of a response
ParsedOr(parsedTools, toolCalls) == IF Len(parsedTools) > 0 THEN parsedTools ELSE toolCalls
\* a finalization that lets the calls found in the text replace the native ones
FinalToolCalls_TextReplaces(acc) ==
    IF acc.fullContent # <<>>
    THEN ParsedOr(parseTextToolCalls(acc.fullContent), acc.toolCalls)
    ELSE acc.toolCalls

FinalToolCalls(acc) ==
    IF Len(acc.toolCalls) = 0 /\ acc.fullContent # <<>>
    THEN ParsedOr(parseTextToolCalls(acc.fullContent), acc.toolCalls)
    ELSE acc.toolCalls

(* ------------------------------ messages ------------------------------ *)
NoCalls == <<>>
NoId == "<undefined>"

SystemMsg(text) ==
    [role |-> "system", content |-> text, tool_calls |-> NoCalls, tool_call_id |-> NoId]
UserMsg(text) ==
    [role |-> "user", content |-> text, tool_calls |-> NoCalls, tool_call_id |-> NoId]
\* lines 342-343: tool_calls is set only when the list is not empty
AssistantMsg(fullContent, toolCalls) ==
    [role |-> "assistant", content |-> OrNull(fullContent),
     tool_calls |-> IF Len(toolCalls) > 0 THEN toolCalls ELSE NoCalls,
     tool_call_id |-> NoId]
ToolMsg(id, text) ==
    [role |-> "tool", content |-> text, tool_calls |-> NoCalls, tool_call_id |-> id]

ENHANCER_SYSTEM_PROMPT == <<"ENHANCER_SYSTEM_PROMPT">>
EXECUTING_SYSTEM_PROMPT == <<"EXECUTING_SYSTEM_PROMPT">>
SINGLE_MODEL_PROMPT == <<"SINGLE_MODEL_PROMPT">>
SINGLE_MODEL_SYSTEM_PROMPT == <<"SINGLE_MODEL_SYSTEM_PROMPT">>

ParseFailureText == <<"Error: Failed to parse tool arguments">>
DeniedText == <<"Tool execution denied by user.">>
TypeErrorText == <<"Error: Cannot read properties of null">>
\* executeToolAndSendEvents line 450 and executeToolCall line 556
UnknownToolText(h) ==
    IF h = "server" THEN <<"Error: Unknown tool function">> ELSE <<"Error: Unknown tool">>

(* ------------------------------ tools.ts ------------------------------ *)
\* A path argument: relative under the working directory, relative leading
\* out of it, absolute, or missing from the arguments.
Paths == {"src/a.ts", "../b.ts", "/etc/c", "undefined"}
IsAbsolute(inputPath) == inputPath = "/etc/c"
ResolvesUnderCwd(inputPath) == inputPath = "src/a.ts"

\* validatePath does not throw; path.resolve(undefined) throws a TypeError
validatePath(inputPath) ==
    inputPath # "undefined" /\ (ResolvesUnderCwd(inputPath) \/ IsAbsolute(inputPath))

\* what the file system does with a request
FsOutcomes == {"ok", "empty", "ENOENT"}

\* the texts the catch blocks return: `Error listing files: ${error.message}` and
\* the like, as the word Error, what follows it up to the colon, the colon and
\* the rest
ErrorDoing(doing) == <<"Error", doing, ":", " <message>">>
TimedOutText == <<"Error", ":", " Command timed out after 30 seconds">>

\* listFiles(dirPath = '.')
listFiles(dirPath, fs) ==
    IF dirPath # "undefined" /\ ~validatePath(dirPath) THEN ErrorDoing(" listing files")
    ELSE IF fs = "ENOENT" THEN ErrorDoing(" listing files")
    ELSE IF fs = "empty" THEN <<"(Empty directory)">>
    ELSE <<"[FILE] a.ts">>

readFile(filePath, fs) ==
    IF ~validatePath(filePath) \/ fs = "ENOENT" THEN ErrorDoing(" reading file")
    ELSE IF fs = "empty" THEN <<>>
    ELSE <<"<content>">>

\* fs.writeFile(safePath, undefined) throws a TypeError
writeFile(filePath, content, fs) ==
    IF ~validatePath(filePath) \/ fs = "ENOENT" \/ content = "undefined"
    THEN ErrorDoing(" writing file")
    ELSE <<"Successfully wrote to ", filePath>>

\* A command line, by what its process does: the exit codes it may end with
\* (none when it never ends by itself), whether it writes output and what it
\* does with SIGTERM.  exec(undefined) throws.  How a process has ended is
\* "0", "1" or "SIGTERM".
Command(text, exits, output, onTerm) ==
    [text |-> text, exits |-> exits, output |-> output, onTerm |-> onTerm]
Commands ==
    { Command("echo hi", {"0"}, TRUE, "dies"),
      Command("true", {"0"}, FALSE, "dies"),
      Command("false", {"1"}, FALSE, "dies"),
      Command("sleep 60", {"0"}, FALSE, "dies"),
      Command("trap '' TERM; sleep 60; echo late", {"0"}, TRUE, "ignores"),
      Command("trap '' TERM; sleep infinity", {}, FALSE, "ignores"),
      Command("undefined", {}, FALSE, "dies") }

\* the callback of exec: error is null when the child has exited with code 0,
\* and carries killed when the timeout has sent the kill signal
ExecError(code, killed) ==
    IF code = "0" THEN [error |-> FALSE, killed |-> FALSE]
    ELSE [error |-> TRUE, killed |-> killed]

\* runShellCommand, lines 152-163, once execWithTimeout has settled
ShellResult(err, output) ==
    IF ~err.error
    THEN IF output THEN <<"STDOUT:", "<stdout>">>
         ELSE <<"(Command completed with no output)">>
    ELSE IF err.killed THEN TimedOutText
    ELSE ErrorDoing(" executing command")

\* what the four callables may return
ListResults == {listFiles(p, fs) : p \in Paths, fs \in FsOutcomes}
ReadResults == {readFile(p, fs) : p \in Paths, fs \in FsOutcomes}
WriteResults ==
    {writeFile(p, c, fs) : p \in Paths, c \in {"<content>", "undefined"}, fs \in FsOutcomes}
ShellResults ==
    {ShellResult(ExecError(c, k), o) : c \in {"0", "1", "SIGTERM"}, k \in BOOLEAN, o \in BOOLEAN}

\* what a tool callable of tools.ts may return
ToolResults(name) ==
    IF name = "list_files" THEN ListResults
    ELSE IF name = "read_file" THEN ReadResults
    ELSE IF name = "write_file" THEN WriteResults
    ELSE ShellResults

\* a gate that asks for write_file only
NeedsConfirm_WriteOnly(fnName) == fnName = "write_file"

\* executeToolCall line 544
NeedsConfirm(fnName) == fnName = "write_file" \/ fnName = "run_shell_command"

(* ------------------------------- state -------------------------------- *)
\* the handlers of the server host that may be in flight at a time; a client
\* that waits for the end of each turn before it asks again, and the terminal
\* host, keep one
Slots == {1, 2}
Sequential == {1}
SessionIds == {"default", "other"}
HistIds == 1..(Cardinality(SessionIds) + Cardinality(Slots))
UserTexts == {<<WORD>>}

VARIABLES
    host,       \* "terminal" (runAgent) or "server" (startWebServer)
    config,     \* the Config object
    sessions,   \* server.ts line 25: session id -> {history, dualMode}
    heap,       \* the history arrays, by object identity
    req,        \* per slot: the turn in flight, its locals and its position
    obs,        \* per slot: what the turn has requested and dispatched so far
    lastExec,   \* per session: the executor history its last dual-phase turn left
    used,       \* turns started, engine requests issued, chunks streamed
    bench       \* a function of the engine run on its own: what it was fed, what it holds

vars == <<host, config, sessions, heap, req, obs, lastExec, used, bench>>

\* no function is run on its own
NoBench == [fed |-> <<>>, out |-> <<>>]

NoSession == [history |-> 0, dualMode |-> FALSE]

IdleReq ==
    [pc |-> "idle", outcome |-> "none", sid |-> "", mode |-> "single",
     autoApprove |-> TRUE, message |-> <<>>, h |-> 0, acc |-> NewAccum,
     enhancedPrompt |-> <<>>, toolCalls |-> <<>>, i |-> 0, events |-> <<>>,
     clientDisconnected |-> FALSE, writableEnded |-> FALSE]

\* closedAt: the number of events written when the client went away, -1 while
\* it is there; closedHistory: the history as it was then
NoObs == [requests |-> <<>>, responses |-> <<>>, dispatched |-> <<>>, orig |-> <<>>,
          prevExec |-> <<>>, closedAt |-> -1, closedHistory |-> <<>>]

Owners == SessionIds \cup {"terminal"}

\* history objects still referenced
Live(ss, rq) ==
    {ss[s].history : s \in SessionIds} \cup {rq[r].h : r \in Slots}
    \cup (IF host = "terminal" THEN {1, 2} ELSE {})

\* memory no longer referenced is given back
Collect(hp, ss, rq) == [o \in HistIds |-> IF o \in Live(ss, rq) THEN hp[o] ELSE <<>>]

\* a store that hands the same array to every session
NewObj_OneForAll(ss, rq) == 1

\* an allocation that looks at the session map only: an array a handler still
\* holds after its session was cleared is handed out again
NewObj_StoredOnly(ss, rq) == SetMin(HistIds \ {ss[sid].history : sid \in SessionIds})

\* `history: []`: a new array
NewObj(ss, rq) == SetMin(HistIds \ Live(ss, rq))

Push(hp, o, m) == [hp EXCEPT ![o] = Append(@, m)]

Event(type, data) == [type |-> type, data |-> data]

\* sendEvent (server.ts lines 185-189); the terminal host prints instead
Send(r, type, data) ==
    IF host = "server" /\ ~r.writableEnded
    THEN Append(r.events, Event(type, data)) ELSE r.events

\* client.chat.completions.create({model, messages, tools, stream: true})
ModelRequest(model, messages, tools) ==
    [model |-> model, messages |-> messages, tools |-> tools]

InitEngine ==
    /\ host \in {"terminal", "server"}
    /\ config \in [dualMode : BOOLEAN, model : {"m"}, thinkingModel : {"mt"},
                   executingModel : {"me"}]
    /\ sessions = [s \in SessionIds |-> NoSession]
    \* agent.ts lines 142-147: history and dualModeHistory
    /\ heap = [o \in HistIds |->
                 IF host = "terminal" /\ o = 1
                 THEN <<SystemMsg(SINGLE_MODEL_SYSTEM_PROMPT)>> ELSE <<>>]
    /\ req = [r \in Slots |-> IdleReq]
    /\ obs = [r \in Slots |-> NoObs]
    /\ lastExec = [s \in Owners |-> <<>>]
    /\ used = [turns |-> 0, requests |-> 0, chunks |-> 0]

Init == InitEngine /\ bench = NoBench

(* --------------------------- engine steps ----------------------------- *)
\* A step works on st = [rq, ob, hp, ss, used]: the turn's record, what it has
\* been seen to do, the heap, the session map and the counters.
State(r) == [rq |-> req[r], ob |-> obs[r], hp |-> heap, ss |-> sessions, used |-> used]

Commit(r, st) ==
    /\ req' = [req EXCEPT ![r] = st.rq]
    /\ obs' = [obs EXCEPT ![r] = st.ob]
    /\ sessions' = st.ss
    /\ heap' = Collect(st.hp, st.ss, [req EXCEPT ![r] = st.rq])
    /\ used' = st.used
    /\ lastExec' = IF st.rq.mode = "dual" /\ st.rq.h # 0
                   THEN [lastExec EXCEPT ![st.rq.sid] = st.hp[st.rq.h]]
                   ELSE lastExec
    /\ UNCHANGED <<host, config, bench>>

Emit(st, type, data) == [st EXCEPT !.rq.events = Send(st.rq, type, data)]

\* a push that appends the message twice
PushMsg_Twice(st, m) == [st EXCEPT !.hp = Push(Push(@, st.rq.h, m), st.rq.h, m)]

\* history.push(m)
PushMsg(st, m) == [st EXCEPT !.hp = Push(@, st.rq.h, m)]

\* the model the turn engine asks: config.model, or config.executingModel in
\* the executing phase
EngineModel(rq) == IF rq.mode = "dual" THEN config.executingModel ELSE config.model

\* server.ts lines 297-307: the request carries the history as it is now
IssueRequest(st) ==
    [st EXCEPT !.rq.pc = "streaming", !.rq.acc = NewAccum,
               !.rq.toolCalls = <<>>, !.rq.i = 0,
               !.ob.requests = Append(@, ModelRequest(EngineModel(st.rq),
                                                      st.hp[st.rq.h], TRUE)),
               !.used.requests = @ + 1]

\* an enhancer that is offered the tools
IssueEnhancerRequest_WithTools(st) ==
    [st EXCEPT !.rq.pc = "enhancing", !.rq.enhancedPrompt = <<>>,
               !.ob.requests = Append(@, ModelRequest(config.thinkingModel,
                     <<SystemMsg(ENHANCER_SYSTEM_PROMPT), UserMsg(st.rq.message)>>,
                     TRUE))]

\* server.ts lines 254-261, agent.ts lines 198-205: the enhancer's request
IssueEnhancerRequest(st) ==
    [st EXCEPT !.rq.pc = "enhancing", !.rq.enhancedPrompt = <<>>,
               !.ob.requests = Append(@, ModelRequest(config.thinkingModel,
                     <<SystemMsg(ENHANCER_SYSTEM_PROMPT), UserMsg(st.rq.message)>>,
                     FALSE))]

\* the position the for loop over toolCalls moves to
NextIndex(i) == i + 1

\* a loop that asks the model again after the first tool call of a round
AfterTool_AskAtOnce(st) == IssueRequest(st)

\* the end of one iteration of `for (const toolCall of toolCalls)`: the next
\* tool call, or the next round of `while (!finishedTurn)`
AfterTool(st) ==
    IF st.rq.i < Len(st.rq.toolCalls)
    THEN [st EXCEPT !.rq.i = NextIndex(@), !.rq.pc = "dispatch"]
    ELSE IssueRequest(st)

\* the handler has returned (server.ts lines 217-219 end the response): its
\* parameters and locals are gone; what stays is what was sent and the history
\* it worked on
Ended(rq, outcome, events) ==
    [IdleReq EXCEPT !.pc = "ended", !.outcome = outcome, !.sid = rq.sid,
                    !.mode = rq.mode, !.h = rq.h, !.events = events,
                    !.writableEnded = (host = "server")]

\* the turn ends normally: server.ts lines 283 and 208-210
Finish(st) ==
    LET s1 == IF st.rq.mode = "dual" THEN Emit(st, "phase_end", "executing") ELSE st
        s2 == IF st.rq.clientDisconnected THEN s1 ELSE Emit(s1, "done", "")
    IN  [s2 EXCEPT !.rq = Ended(s2.rq, "done", s2.rq.events)]

\* a handler that sends done in a finally block, after the error event too
Fail_ThenDone(st, message) ==
    [st EXCEPT !.rq = Ended(st.rq, "error",
                            IF st.rq.clientDisconnected THEN st.rq.events
                            ELSE st.rq.events \o <<Event("error", message), Event("done", "")>>)]

\* an exception leaves the turn: server.ts lines 211-215 send one error event,
\* agent.ts lines 253-256, 375-378 and 465-468 print it once
Fail(st, message) ==
    [st EXCEPT !.rq = Ended(st.rq, "error",
                            IF st.rq.clientDisconnected THEN st.rq.events
                            ELSE Append(st.rq.events, Event("error", message)))]

TransportError == "Connection error."
UndefinedError == "Cannot read properties of undefined (reading 'function')"

(* ----------------------------- the hosts ------------------------------ *)
\* POST /api/chat, server.ts lines 164-206, up to the first model request
UseDualMode(dualMode) == IF dualMode # "undefined" THEN dualMode = "true" ELSE config.dualMode

\* a handler that pushes the system prompt in every turn
ChatRequest_PromptEveryTurn(r, sid, message, autoApprove, dualMode) ==
    /\ host = "server"
    /\ req[r].pc \in {"idle", "ended"}
    /\ used.turns < MaxTurns
    /\ message # <<>>
    /\ LET useDualMode == UseDualMode(dualMode)
           rq0 == [IdleReq EXCEPT !.sid = sid, !.message = message,
                                  !.autoApprove = autoApprove,
                                  !.mode = IF useDualMode THEN "dual" ELSE "single"]
           ss1 == IF sessions[sid] = NoSession
                  THEN [sessions EXCEPT ![sid] =
                           [history |-> NewObj(sessions, [req EXCEPT ![r] = rq0]),
                            dualMode |-> useDualMode]]
                  ELSE sessions
           o == ss1[sid].history
           \* `history: []`: the array of a new session is empty
           hp1 == IF sessions[sid] = NoSession THEN [heap EXCEPT ![o] = <<>>] ELSE heap
           st0 == [rq |-> rq0, ob |-> [NoObs EXCEPT !.prevExec = lastExec[sid]],
                   hp |-> Collect(hp1, ss1, [req EXCEPT ![r] = rq0]),
                   ss |-> ss1, used |-> [used EXCEPT !.turns = @ + 1]]
       IN  IF useDualMode
           THEN Commit(r, IssueEnhancerRequest(Emit(st0, "phase_start", "enhancing")))
           ELSE LET st1 == [st0 EXCEPT !.rq.h = o]
                    st2 == PushMsg(st1, SystemMsg(SINGLE_MODEL_PROMPT))
                    st3 == [st2 EXCEPT !.ob.orig = st2.hp[o]]
                IN  Commit(r, IssueRequest(PushMsg(st3, UserMsg(message))))

ChatRequest(r, sid, message, autoApprove, dualMode) ==
    /\ host = "server"
    /\ req[r].pc \in {"idle", "ended"}
    /\ used.turns < MaxTurns
    /\ message # <<>>
    /\ LET useDualMode == UseDualMode(dualMode)
           rq0 == [IdleReq EXCEPT !.sid = sid, !.message = message,
                                  !.autoApprove = autoApprove,
                                  !.mode = IF useDualMode THEN "dual" ELSE "single"]
           ss1 == IF sessions[sid] = NoSession
                  THEN [sessions EXCEPT ![sid] =
                           [history |-> NewObj(sessions, [req EXCEPT ![r] = rq0]),
                            dualMode |-> useDualMode]]
                  ELSE sessions
           o == ss1[sid].history
           \* `history: []`: the array of a new session is empty
           hp1 == IF sessions[sid] = NoSession THEN [heap EXCEPT ![o] = <<>>] ELSE heap
           st0 == [rq |-> rq0, ob |-> [NoObs EXCEPT !.prevExec = lastExec[sid]],
                   hp |-> Collect(hp1, ss1, [req EXCEPT ![r] = rq0]),
                   ss |-> ss1, used |-> [used EXCEPT !.turns = @ + 1]]
       IN  IF useDualMode
           THEN Commit(r, IssueEnhancerRequest(Emit(st0, "phase_start", "enhancing")))
           ELSE LET st1 == [st0 EXCEPT !.rq.h = o]
                    st2 == IF Len(st1.hp[o]) = 0
                           THEN PushMsg(st1, SystemMsg(SINGLE_MODEL_PROMPT)) ELSE st1
                    st3 == [st2 EXCEPT !.ob.orig = st2.hp[o]]
                IN  Commit(r, IssueRequest(PushMsg(st3, UserMsg(message))))

\* POST /api/session/clear, server.ts lines 223-227; a history a handler still
\* holds stays in memory
Clear(sid) ==
    /\ host = "server"
    /\ sessions[sid] # NoSession
    /\ sessions' = [sessions EXCEPT ![sid] = NoSession]
    /\ heap' = Collect(heap, sessions', req)
    /\ lastExec' = [lastExec EXCEPT ![sid] = <<>>]
    /\ UNCHANGED <<host, config, req, obs, used, bench>>

\* the same request from a client that sends it between its turns
ClearSession(sid) ==
    /\ \A r \in Slots : req[r].pc \in {"idle", "ended"}
    /\ Clear(sid)

\* the connection of the turn's client closes: server.ts lines 192-195
Disconnect(r) ==
    /\ host = "server"
    /\ req[r].pc \notin {"idle", "ended", "exited"}
    /\ ~req[r].clientDisconnected
    /\ Commit(r, [State(r) EXCEPT !.rq.clientDisconnected = TRUE,
                                  !.ob.closedAt = Len(req[r].events),
                                  !.ob.closedHistory = IF req[r].h = 0 THEN <<>>
                                                       ELSE heap[req[r].h]])

\* POST /api/config/model, server.ts lines 113-123: the names are written into
\* the config object every handler holds; an empty name is answered with 400
SetModel(model) ==
    /\ host = "server"
    /\ model # ""
    /\ config' = [config EXCEPT !.model = model, !.thinkingModel = model,
                                !.executingModel = model]
    /\ UNCHANGED <<host, sessions, heap, req, obs, lastExec, used, bench>>

\* POST /api/config/dual, server.ts lines 126-133
SetDual(enabled, thinkingModel, executingModel) ==
    /\ host = "server"
    /\ config' = [config EXCEPT
                     !.dualMode = enabled,
                     !.thinkingModel = IF thinkingModel # "" THEN thinkingModel ELSE @,
                     !.executingModel = IF executingModel # "" THEN executingModel ELSE @]
    /\ UNCHANGED <<host, sessions, heap, req, obs, lastExec, used, bench>>

\* one pass of the `while (true)` of runAgent, agent.ts lines 149-175; a blank
\* line changes nothing
Input(r, userMessage) ==
    /\ host = "terminal"
    /\ req[r].pc \in {"idle", "ended"}
    /\ used.turns < MaxTurns
    /\ userMessage # <<>>
    /\ LET st0 == [State(r) EXCEPT
                      !.rq = [IdleReq EXCEPT !.sid = "terminal", !.message = userMessage,
                                 !.mode = IF config.dualMode THEN "dual" ELSE "single",
                                 !.h = IF config.dualMode THEN 2 ELSE 1],
                      !.ob = [NoObs EXCEPT !.orig = heap[IF config.dualMode THEN 2 ELSE 1],
                                           !.prevExec = lastExec["terminal"]],
                      !.used.turns = @ + 1]
       IN  IF config.dualMode
           THEN Commit(r, IssueEnhancerRequest(st0))
           ELSE Commit(r, IssueRequest(PushMsg(st0, UserMsg(userMessage))))

\* `exit` or `quit`, agent.ts lines 157-163: runAgent returns and its
\* histories are gone
Quit(r) ==
    /\ host = "terminal"
    /\ req[r].pc \in {"idle", "ended"}
    /\ req' = [req EXCEPT ![r] = [IdleReq EXCEPT !.pc = "exited"]]
    /\ obs' = [obs EXCEPT ![r] = NoObs]
    /\ heap' = [o \in HistIds |-> <<>>]
    /\ lastExec' = [s \in Owners |-> <<>>]
    /\ UNCHANGED <<host, config, sessions, used, bench>>

(* ---------------------------- the model stream ------------------------ *)
\* the model server answers the enhancer's requests and the first MaxRequests
\* requests of the turn engine
Answering(r) == req[r].pc = "enhancing" \/ used.requests <= MaxRequests

\* a loop that collects the text and shows none of it while the stream runs
Chunk_TextOnlyCollected(r, delta) ==
    /\ req[r].pc \in {"enhancing", "streaming"}
    /\ Answering(r)
    /\ used.chunks < MaxChunks
    /\ LET st0 == [State(r) EXCEPT !.used.chunks = @ + 1] IN
       IF req[r].pc = "enhancing"
       THEN Commit(r, [st0 EXCEPT !.rq.enhancedPrompt = @ \o delta.content])
       ELSE Commit(r, [st0 EXCEPT !.rq.acc = ApplyDelta(@, delta)])

\* one chunk arrives: server.ts lines 263-269 (enhancer) and 309-332,
\* agent.ts lines 214-219 and 311-351
Chunk(r, delta) ==
    /\ req[r].pc \in {"enhancing", "streaming"}
    /\ Answering(r)
    /\ used.chunks < MaxChunks
    /\ LET st0 == [State(r) EXCEPT !.used.chunks = @ + 1] IN
       IF req[r].pc = "enhancing"
       THEN IF delta.content # <<>>
            THEN Commit(r, [Emit(st0, "enhancing_content", delta.content)
                              EXCEPT !.rq.enhancedPrompt = @ \o delta.content])
            ELSE Commit(r, st0)
       ELSE LET st1 == IF delta.content # <<>>
                       THEN Emit(st0, "content", delta.content) ELSE st0
            IN  Commit(r, [st1 EXCEPT !.rq.acc = ApplyDelta(@, delta)])

\* a failure that keeps what was streamed of the response as an assistant message
StreamError_KeepsPartial(r) ==
    /\ req[r].pc \in {"enhancing", "streaming"}
    /\ Answering(r)
    /\ Commit(r, Fail([State(r) EXCEPT
                          !.hp = [o \in HistIds |->
                                    IF o = req[r].h
                                    THEN Append(heap[o], AssistantMsg(req[r].acc.fullContent, <<>>))
                                    ELSE heap[o]]],
                      TransportError))

\* create() rejects or the stream throws; nothing of the response is kept
StreamError(r) ==
    /\ req[r].pc \in {"enhancing", "streaming"}
    /\ Answering(r)
    /\ Commit(r, Fail(State(r), TransportError))

\* an executing phase that works on the history stored in the session
EnhancerEnd_IntoSession(r) ==
    /\ req[r].pc = "enhancing"
    /\ Answering(r)
    /\ IF host = "server" /\ sessions[req[r].sid] # NoSession
       THEN LET st0 == State(r)
                o == sessions[req[r].sid].history
                st1 == Emit(Emit(st0, "phase_end", "enhancing"), "phase_start", "executing")
                st2 == [st1 EXCEPT !.rq.h = o,
                           !.hp[o] = @ \o <<SystemMsg(EXECUTING_SYSTEM_PROMPT),
                                            UserMsg(st0.rq.enhancedPrompt)>>,
                           !.ob.orig = <<SystemMsg(EXECUTING_SYSTEM_PROMPT)>>]
            IN  Commit(r, IssueRequest(st2))
       ELSE Commit(r, [State(r) EXCEPT !.rq.pc = "showFull"])

\* the enhancer's stream ends: server.ts lines 271-281, agent.ts lines 221-242
EnhancerEnd(r) ==
    /\ req[r].pc = "enhancing"
    /\ Answering(r)
    /\ IF host = "server"
       THEN LET st0 == State(r)
                o == NewObj(sessions, req)
                st1 == Emit(Emit(st0, "phase_end", "enhancing"), "phase_start", "executing")
                st2 == [st1 EXCEPT !.rq.h = o,
                           !.hp[o] = <<SystemMsg(EXECUTING_SYSTEM_PROMPT),
                                       UserMsg(st0.rq.enhancedPrompt)>>,
                           !.ob.orig = <<SystemMsg(EXECUTING_SYSTEM_PROMPT)>>]
            IN  Commit(r, IssueRequest(st2))
       ELSE Commit(r, [State(r) EXCEPT !.rq.pc = "showFull"])

\* agent.ts lines 239-251: the answer only chooses what is printed
ShowFull(r, showFullEnhanced) ==
    /\ req[r].pc = "showFull"
    /\ Commit(r, [State(r) EXCEPT !.rq.pc = "proceed"])

\* a host that fills the executor history before it reads the answer
Proceed_PushThenAsk(r, proceed) ==
    /\ req[r].pc = "proceed"
    /\ LET st0 == State(r)
           st1 == IF Len(st0.hp[st0.rq.h]) = 0
                  THEN PushMsg(st0, SystemMsg(EXECUTING_SYSTEM_PROMPT)) ELSE st0
           st2 == [st1 EXCEPT !.ob.orig = st1.hp[st1.rq.h]]
           st3 == PushMsg(st2, UserMsg(st0.rq.enhancedPrompt))
       IN  IF ~proceed
           THEN Commit(r, [st3 EXCEPT !.rq = Ended(@, "cancelled", @.events)])
           ELSE Commit(r, IssueRequest(st3))

\* agent.ts lines 260-283
Proceed(r, proceed) ==
    /\ req[r].pc = "proceed"
    /\ IF ~proceed
       THEN Commit(r, [State(r) EXCEPT !.rq = Ended(@, "cancelled", @.events)])
       ELSE LET st0 == State(r)
                st1 == IF Len(st0.hp[st0.rq.h]) = 0
                       THEN PushMsg(st0, SystemMsg(EXECUTING_SYSTEM_PROMPT)) ELSE st0
                st2 == [st1 EXCEPT !.ob.orig = st1.hp[st1.rq.h]]
            IN  Commit(r, IssueRequest(PushMsg(st2, UserMsg(st0.rq.enhancedPrompt))))

\* server.ts lines 342-353, agent.ts lines 363-373: the assistant message is
\* pushed, then the tool calls are gone through, or the turn finishes
EndResponse(st0, toolCalls) ==
    LET st1 == PushMsg(st0, AssistantMsg(st0.rq.acc.fullContent, toolCalls))
        st2 == [st1 EXCEPT !.ob.responses =
                   Append(@, [content |-> st0.rq.acc.fullContent,
                              native |-> st0.rq.acc.toolCalls,
                              toolCalls |-> toolCalls])]
    IN  IF Len(toolCalls) > 0
        THEN [st2 EXCEPT !.rq.toolCalls = toolCalls, !.rq.i = 1, !.rq.pc = "dispatch"]
        ELSE Finish(st2)

\* the response stream ends: server.ts lines 334-353, agent.ts lines 353-373
StreamEnd(r) ==
    /\ req[r].pc = "streaming"
    /\ Answering(r)
    /\ Commit(r, EndResponse(State(r), FinalToolCalls(req[r].acc)))

(* ----------------------------- tool dispatch -------------------------- *)
Dispatched(pos, call, prompted) ==
    [pos |-> pos, call |-> call, prompted |-> prompted, answer |-> "none",
     invoked |-> FALSE]

Note(st, entry) == [st EXCEPT !.ob.dispatched = Append(@, entry)]
NoteLast(st, field, v) ==
    [st EXCEPT !.ob.dispatched[Len(st.ob.dispatched)] = [@ EXCEPT ![field] = v]]

\* a reply that carries the tool's name where the call's id belongs
Reply_ByName(st, call, text) == PushMsg(st, ToolMsg(call.name, text))

\* the tool message that answers a call
Reply(st, call, text) == PushMsg(st, ToolMsg(call.id, text))

\* a dispatcher for which an unknown tool name ends the turn
Invoke_UnknownFatal(st, call) ==
    IF call.name \in ToolNames
    THEN IF JsonIsNull(call.arguments)
         THEN AfterTool(Reply(Emit(st, "tool_error", call.name), call, TypeErrorText))
         ELSE [NoteLast(st, "invoked", TRUE) EXCEPT !.rq.pc = "running"]
    ELSE Fail(st, "Unknown tool function")

\* a dispatcher that calls the tool outside the try block
Invoke_ThrowAborts(st, call) ==
    IF call.name \in ToolNames
    THEN IF JsonIsNull(call.arguments)
         THEN Fail(st, "Cannot read properties of null")
         ELSE [NoteLast(st, "invoked", TRUE) EXCEPT !.rq.pc = "running"]
    ELSE AfterTool(Reply(Emit(st, "tool_result", call.name), call, UnknownToolText(host)))

\* server.ts lines 444-461, agent.ts lines 549-561: the call is let through
Invoke(st, call) ==
    IF call.name \in ToolNames
    THEN IF JsonIsNull(call.arguments)
         \* args.dir_path throws inside the try block
         THEN AfterTool(Reply(Emit(st, "tool_error", call.name), call, TypeErrorText))
         ELSE [NoteLast(st, "invoked", TRUE) EXCEPT !.rq.pc = "running"]
    ELSE AfterTool(Reply(Emit(st, "tool_result", call.name), call, UnknownToolText(host)))

\* a dispatcher that resolves the name before it parses the arguments
Dispatch_ResolveFirst(r) ==
    /\ req[r].pc = "dispatch"
    /\ LET st0 == State(r)
           call == st0.rq.toolCalls[st0.rq.i]
       IN  IF call = Hole
           THEN Commit(r, Fail(st0, UndefinedError))
           ELSE IF call.name \notin ToolNames
           THEN Commit(r, Invoke(Emit(Note(st0, Dispatched(st0.rq.i, call, FALSE)),
                                      "tool_start", call.name), call))
           ELSE IF ~JsonParses(call.arguments)
           THEN Commit(r, AfterTool(Reply(Emit(Note(st0, Dispatched(st0.rq.i, call, FALSE)),
                                               "tool_error", call.name),
                                          call, ParseFailureText)))
           ELSE IF host = "terminal" /\ NeedsConfirm(call.name)
           THEN Commit(r, [Note(st0, Dispatched(st0.rq.i, call, TRUE))
                             EXCEPT !.rq.pc = "confirm"])
           ELSE Commit(r, Invoke(Emit(Note(st0, Dispatched(st0.rq.i, call, FALSE)),
                                      "tool_start", call.name), call))

\* executeToolAndSendEvents, server.ts lines 431-449, and executeToolCall,
\* agent.ts lines 524-546, up to the first await
Dispatch(r) ==
    /\ req[r].pc = "dispatch"
    /\ LET st0 == State(r)
           call == st0.rq.toolCalls[st0.rq.i]
       IN  IF call = Hole
           THEN Commit(r, Fail(st0, UndefinedError))
           ELSE IF ~JsonParses(call.arguments)
           THEN Commit(r, AfterTool(Reply(Emit(Note(st0, Dispatched(st0.rq.i, call, FALSE)),
                                               "tool_error", call.name),
                                          call, ParseFailureText)))
           ELSE IF host = "terminal" /\ NeedsConfirm(call.name)
           THEN Commit(r, [Note(st0, Dispatched(st0.rq.i, call, TRUE))
                             EXCEPT !.rq.pc = "confirm"])
           ELSE Commit(r, Invoke(Emit(Note(st0, Dispatched(st0.rq.i, call, FALSE)),
                                      "tool_start", call.name), call))

\* a gate for which a denial is an exception
Confirm_DenialThrows(r, allowed) ==
    /\ req[r].pc = "confirm"
    /\ LET st0 == NoteLast(State(r), "answer", IF allowed THEN "yes" ELSE "no")
           call == st0.rq.toolCalls[st0.rq.i]
       IN  IF allowed
           THEN Commit(r, Invoke(st0, call))
           ELSE Commit(r, Fail(st0, "Tool execution denied by user."))

\* confirm() returns, agent.ts lines 545-567
Confirm(r, allowed) ==
    /\ req[r].pc = "confirm"
    /\ LET st0 == NoteLast(State(r), "answer", IF allowed THEN "yes" ELSE "no")
           call == st0.rq.toolCalls[st0.rq.i]
       IN  IF allowed
           THEN Commit(r, Invoke(st0, call))
           ELSE Commit(r, AfterTool(Reply(st0, call, DeniedText)))

\* a dispatcher that drops the result of a tool that ran
ToolReturns_DropsResult(r, result) ==
    /\ req[r].pc = "running"
    /\ LET st0 == State(r)
           call == st0.rq.toolCalls[st0.rq.i]
       IN  /\ result \in ToolResults(call.name)
           /\ Commit(r, AfterTool(Emit(st0, "tool_result", call.name)))

\* the tool callable returns, server.ts lines 453-457, agent.ts lines 557-567
ToolReturns(r, result) ==
    /\ req[r].pc = "running"
    /\ LET st0 == State(r)
           call == st0.rq.toolCalls[st0.rq.i]
       IN  /\ result \in ToolResults(call.name)
           /\ Commit(r, AfterTool(Reply(Emit(st0, "tool_result", call.name), call, result)))

(* --------------------------- specification ---------------------------- *)
\* the chunks the model server streams
Deltas ==
    { Delta(<<WORD>>, <<>>),
      Delta(<<LBRACE, NameTok("write_file"), COMMA, ARGKEY, LBRACE, KV, RBRACE, RBRACE>>, <<>>),
      Delta(<<>>, <<Fragment(0, "call_a", "list_files", <<LBRACE, RBRACE>>)>>),
      Delta(<<>>, <<Fragment(1, "call_b", "run_shell_command", <<LBRACE, KV, RBRACE>>)>>),
      Delta(<<>>, <<Fragment(0, "", "", <<LBRACE>>)>>),
      Delta(<<>>, <<Fragment(0, "call_c", "frobnicate", <<JNULL>>)>>),
      Delta(<<>>, <<Fragment(0, "call_a", "write_file", <<LBRACE, KV, RBRACE>>),
                    Fragment(1, "call_b", "read_file", <<JNULL>>)>>) }

Next ==
    \/ \E r \in Sequential, sid \in {"default"}, m \in UserTexts, a \in BOOLEAN,
          d \in {"undefined"} : ChatRequest(r, sid, m, a, d)
    \/ \E sid \in {"default"} : ClearSession(sid)
    \/ \E r \in Sequential, m \in UserTexts : Input(r, m)
    \/ \E r \in Sequential : Quit(r)
    \/ \E r \in Sequential, d \in Deltas : Chunk(r, d)
    \/ \E r \in Sequential : StreamError(r)
    \/ \E r \in Sequential : EnhancerEnd(r)
    \/ \E r \in Sequential, b \in BOOLEAN : ShowFull(r, b)
    \/ \E r \in Sequential, b \in BOOLEAN : Proceed(r, b)
    \/ \E r \in Sequential : StreamEnd(r)
    \/ \E r \in Sequential : Dispatch(r)
    \/ \E r \in Sequential, b \in BOOLEAN : Confirm(r, b)
    \/ \E r \in Sequential, res \in UNION {ToolResults(n) : n \in ToolNames} : ToolReturns(r, res)

Spec == Init /\ [][Next]_vars

\* the chunks of a model server whose responses are rounds of two tool calls:
\* a call that throws, an unknown tool and arguments that do not parse, each
\* followed by a second call; and a call for which no arguments were streamed
ToolDeltas ==
    { Delta(<<WORD>>, <<>>),
      Delta(<<>>, <<Fragment(0, "call_g", "list_files", <<>>)>>),
      Delta(<<>>, <<Fragment(0, "call_a", "read_file", <<JNULL>>),
                    Fragment(1, "call_b", "list_files", <<LBRACE, RBRACE>>)>>),
      Delta(<<>>, <<Fragment(0, "call_c", "frobnicate", <<LBRACE, RBRACE>>),
                    Fragment(1, "call_d", "write_file", <<JNULL>>)>>),
      Delta(<<>>, <<Fragment(0, "call_e", "frobnicate", <<LBRACE>>),
                    Fragment(1, "call_f", "run_shell_command", <<LBRACE, KV, RBRACE>>)>>) }

NextTools ==
    \/ \E r \in Sequential, sid \in {"default"}, m \in UserTexts, a \in {TRUE},
          d \in {"undefined"} : ChatRequest(r, sid, m, a, d)
    \/ \E sid \in {"default"} : ClearSession(sid)
    \/ \E r \in Sequential, m \in UserTexts : Input(r, m)
    \/ \E r \in Sequential : Quit(r)
    \/ \E r \in Sequential, d \in ToolDeltas : Chunk(r, d)
    \/ \E r \in Sequential : StreamError(r)
    \/ \E r \in Sequential : EnhancerEnd(r)
    \/ \E r \in Sequential, b \in BOOLEAN : ShowFull(r, b)
    \/ \E r \in Sequential, b \in BOOLEAN : Proceed(r, b)
    \/ \E r \in Sequential : StreamEnd(r)
    \/ \E r \in Sequential : Dispatch(r)
    \/ \E r \in Sequential, b \in BOOLEAN : Confirm(r, b)
    \/ \E r \in Sequential, res \in UNION {ToolResults(n) : n \in ToolNames} : ToolReturns(r, res)

SpecTools == Init /\ [][NextTools]_vars

(* ------------- the server host with clients of its own will ----------- *)
\* clients that do not wait for one another and clear sessions at any time
ServerDeltas ==
    { Delta(<<WORD>>, <<>>),
      Delta(<<>>, <<Fragment(0, "call_a", "list_files", <<LBRACE, RBRACE>>)>>) }

InitServer == Init /\ host = "server" /\ ~config.dualMode

NextServer ==
    \/ \E r \in Slots, sid \in SessionIds, m \in UserTexts, a \in {TRUE},
          d \in {"undefined"} : ChatRequest(r, sid, m, a, d)
    \/ \E sid \in SessionIds : Clear(sid)
    \/ \E r \in Slots, d \in ServerDeltas : Chunk(r, d)
    \/ \E r \in Slots : StreamEnd(r)
    \/ \E r \in Slots : Dispatch(r)
    \/ \E r \in Slots, res \in ToolResults("list_files") : ToolReturns(r, res)

SpecServer == InitServer /\ [][NextServer]_vars

\* a client that waits for its turns, and may close its connection in the
\* middle of one
CloseDeltas ==
    { Delta(<<WORD>>, <<>>),
      Delta(<<>>, <<Fragment(0, "call_a", "list_files", <<LBRACE, RBRACE>>)>>),
      Delta(<<>>, <<Fragment(0, "call_b", "read_file", <<JNULL>>)>>) }

InitClose == Init /\ host = "server"

NextClose ==
    \/ \E r \in Sequential, sid \in {"default"}, m \in UserTexts, a \in {TRUE},
          d \in {"undefined"} : ChatRequest(r, sid, m, a, d)
    \/ \E r \in Sequential : Disconnect(r)
    \/ \E r \in Sequential, d \in CloseDeltas : Chunk(r, d)
    \/ \E r \in Sequential : StreamError(r)
    \/ \E r \in Sequential : EnhancerEnd(r)
    \/ \E r \in Sequential : StreamEnd(r)
    \/ \E r \in Sequential : Dispatch(r)
    \/ \E r \in Sequential, res \in ToolResults("list_files") : ToolReturns(r, res)

SpecClose == InitClose /\ [][NextClose]_vars

(* ----------------- the server with its configuration ------------------ *)
\* one handler at a time, chat requests that choose their mode, and the two
\* configuration endpoints answered at any moment
ConfigDeltas ==
    { Delta(<<WORD>>, <<>>),
      Delta(<<>>, <<Fragment(0, "call_a", "list_files", <<LBRACE, RBRACE>>)>>) }

ModelNames == {"", "m2"}

InitConfig == Init /\ host = "server" /\ ~config.dualMode

NextConfig ==
    \/ \E r \in Sequential, sid \in {"default"}, m \in UserTexts, a \in {TRUE},
          d \in {"undefined", "true", "false"} : ChatRequest(r, sid, m, a, d)
    \/ \E m \in ModelNames : SetModel(m)
    \/ \E e \in BOOLEAN, t \in {""}, x \in ModelNames : SetDual(e, t, x)
    \/ \E r \in Sequential, d \in ConfigDeltas : Chunk(r, d)
    \/ \E r \in Sequential : EnhancerEnd(r)
    \/ \E r \in Sequential : StreamEnd(r)
    \/ \E r \in Sequential : Dispatch(r)
    \/ \E r \in Sequential, res \in ToolResults("list_files") : ToolReturns(r, res)

SpecConfig == InitConfig /\ [][NextConfig]_vars

(* ------------------- the turn loop under fairness -------------------- *)
\* single-mode turns on either host with a model server whose streams all
\* end, tools and approvals that return, and a last response of the server's
\* budget that carries no tool call
LiveDeltas ==
    { Delta(<<WORD>>, <<>>),
      Delta(<<>>, <<Fragment(0, "call_a", "list_files", <<LBRACE, RBRACE>>)>>),
      Delta(<<>>, <<Fragment(1, "call_b", "write_file", <<LBRACE, KV, RBRACE>>)>>) }

\* the server has a response left after this one
MoreToCome == used.requests < MaxRequests

InitLive == Init /\ ~config.dualMode

NextLive ==
    \/ \E r \in Sequential, m \in UserTexts :
          MoreToCome /\ ChatRequest(r, "default", m, TRUE, "undefined")
    \/ \E r \in Sequential, m \in UserTexts : MoreToCome /\ Input(r, m)
    \/ \E r \in Sequential, d \in LiveDeltas :
          (d.tool_calls # <<>> => MoreToCome) /\ Chunk(r, d)
    \/ \E r \in Sequential : StreamEnd(r)
    \/ \E r \in Sequential : Dispatch(r)
    \/ \E r \in Sequential, b \in BOOLEAN : Confirm(r, b)
    \/ \E r \in Sequential, res \in UNION {ToolResults(n) : n \in ToolNames} : ToolReturns(r, res)

\* every stream ends, every dispatch goes on, every approval and every tool
\* invocation returns
LiveFairness ==
    \A r \in Sequential :
        /\ WF_vars(StreamEnd(r))
        /\ WF_vars(Dispatch(r))
        /\ WF_vars(\E b \in BOOLEAN : Confirm(r, b))
        /\ WF_vars(\E res \in UNION {ToolResults(n) : n \in ToolNames} : ToolReturns(r, res))

SpecLive == InitLive /\ [][NextLive]_vars /\ LiveFairness

(* --------------------- the callables on their own --------------------- *)
\* bench holds one call of a callable: calls made so far and what they gave
\* back, the callable, whether it has returned, whether it took its catch
\* block, what it returned, and for
\* run_shell_command the command, the child process, how it ended, the timers
\* of lines 136 and 145, and whether they found the child still running
NoCommand == Command("", {}, FALSE, "dies")
IdleCall ==
    [calls |-> 0, returns |-> <<>>, name |-> "", pc |-> "idle", failed |-> FALSE,
     result |-> <<>>,
     command |-> NoCommand, child |-> "none", status |-> "", timer |-> "off",
     killed |-> FALSE, expired |-> FALSE]

InitCallables == InitEngine /\ host = "server" /\ ~config.dualMode /\ bench = IdleCall

CanCall == bench.pc \in {"idle", "returned"} /\ bench.calls < MaxCalls

Returned(name, failed, result) ==
    /\ bench' = [IdleCall EXCEPT !.calls = bench.calls + 1,
                                 !.returns = Append(bench.returns, result),
                                 !.name = name, !.pc = "returned", !.failed = failed,
                                 !.result = result]
    /\ UNCHANGED <<host, config, sessions, heap, req, obs, lastExec, used>>

CallListFiles(dirPath, fs) ==
    /\ CanCall
    /\ Returned("list_files",
                (dirPath # "undefined" /\ ~validatePath(dirPath)) \/ fs = "ENOENT",
                listFiles(dirPath, fs))

CallReadFile(filePath, fs) ==
    /\ CanCall
    /\ Returned("read_file", ~validatePath(filePath) \/ fs = "ENOENT", readFile(filePath, fs))

CallWriteFile(filePath, content, fs) ==
    /\ CanCall
    /\ Returned("write_file",
                ~validatePath(filePath) \/ fs = "ENOENT" \/ content = "undefined",
                writeFile(filePath, content, fs))

\* runShellCommand up to its await: exec starts the child and both timers are
\* set; exec(undefined) throws inside the promise, which the catch block takes
Exec(command) ==
    /\ CanCall
    /\ IF command.text = "undefined"
       THEN Returned("run_shell_command", TRUE,
                     ShellResult([error |-> TRUE, killed |-> FALSE], FALSE))
       ELSE /\ bench' = [IdleCall EXCEPT !.calls = bench.calls + 1,
                                         !.returns = bench.returns,
                                         !.name = "run_shell_command", !.pc = "waiting",
                                         !.command = command, !.child = "running",
                                         !.timer = "armed"]
            /\ UNCHANGED <<host, config, sessions, heap, req, obs, lastExec, used>>

\* the child ends by itself
ChildExit(code) ==
    /\ bench.child = "running"
    /\ code \in bench.command.exits
    /\ bench' = [bench EXCEPT !.child = "exited", !.status = code]
    /\ UNCHANGED <<host, config, sessions, heap, req, obs, lastExec, used>>

\* timeoutMs have passed: exec's timeout and line 146 send SIGTERM to a child
\* that still runs; the timer of line 145 also fires when the child is gone
Timer ==
    /\ bench.timer = "armed"
    /\ bench' =
          IF bench.child # "running" THEN [bench EXCEPT !.timer = "fired"]
          ELSE IF bench.command.onTerm = "dies"
          THEN [bench EXCEPT !.timer = "fired", !.killed = TRUE, !.expired = TRUE,
                             !.child = "exited", !.status = "SIGTERM"]
          ELSE [bench EXCEPT !.timer = "fired", !.killed = TRUE, !.expired = TRUE]
    /\ UNCHANGED <<host, config, sessions, heap, req, obs, lastExec, used>>

\* the callback of exec runs and runShellCommand returns; the kill has closed
\* the pipes, so output written after it is not read
Settle ==
    /\ bench.pc = "waiting"
    /\ bench.child = "exited"
    /\ bench' = [bench EXCEPT
                    !.pc = "returned",
                    !.returns = Append(@, ShellResult(ExecError(bench.status, bench.killed),
                                                     bench.command.output /\ ~bench.killed)),
                    !.failed = ExecError(bench.status, bench.killed).error,
                    !.result = ShellResult(ExecError(bench.status, bench.killed),
                                           bench.command.output /\ ~bench.killed)]
    /\ UNCHANGED <<host, config, sessions, heap, req, obs, lastExec, used>>

NextCallables ==
    \/ \E p \in Paths, fs \in FsOutcomes : CallListFiles(p, fs)
    \/ \E p \in Paths, fs \in FsOutcomes : CallReadFile(p, fs)
    \/ \E p \in Paths, c \in {"<content>", "undefined"}, fs \in FsOutcomes :
          CallWriteFile(p, c, fs)
    \/ \E c \in Commands : Exec(c)
    \/ \E code \in {"0", "1"} : ChildExit(code)
    \/ Timer
    \/ Settle

SpecCallables == InitCallables /\ [][NextCallables]_vars

(* ------------------- the accumulator on its own ----------------------- *)
\* what a fragment may carry besides its index: an id or none, a piece of the
\* name or none, a piece of the arguments or none
Payloads ==
    { [id |-> "call_a", name |-> "read_", arguments |-> <<>>],
      [id |-> "", name |-> "file", arguments |-> <<LBRACE>>],
      [id |-> "", name |-> "", arguments |-> <<KV>>],
      [id |-> "call_b", name |-> "", arguments |-> <<RBRACE>>],
      [id |-> "", name |-> "", arguments |-> <<>>],
      [id |-> "call_c", name |-> "list_files", arguments |-> <<LBRACE, RBRACE>>] }

Indices == 0..1

Fragments == {Fragment(i, p.id, p.name, p.arguments) : i \in Indices, p \in Payloads}

\* the loop over the stream with its locals as they are before the first chunk
\* (server.ts lines 305-307): fed is what the stream has delivered so far
InitAccum ==
    /\ InitEngine /\ host = "server" /\ ~config.dualMode
    /\ bench = [fed |-> <<>>, out |-> NewAccum]

\* a chunk with the tool-call fragments fs arrives
Feed(fs) ==
    /\ Len(bench.fed) + Len(fs) <= MaxFragments
    /\ bench' = [fed |-> bench.fed \o fs, out |-> ApplyDelta(bench.out, Delta(<<>>, fs))]
    /\ UNCHANGED <<host, config, sessions, heap, req, obs, lastExec, used>>

NextAccum ==
    \/ \E f \in Fragments : Feed(<<f>>)
    \/ \E f \in Fragments, g \in Fragments : Feed(<<f, g>>)

SpecAccum == InitAccum /\ [][NextAccum]_vars

(* ---------------- a model that writes its tool calls as text ---------- *)
\* ```json {"name":"list_files","arguments":{"k":1}} ```
WellFormedBlock ==
    <<FENCE, LBRACE, NameTok("list_files"), COMMA, ARGKEY, LBRACE, KV, RBRACE, RBRACE, FENCE>>

\* the same kind of block, pretty-printed: white space after each brace
PrettyBlock ==
    <<FENCE, WS, LBRACE, WS, NameTok("read_file"), COMMA, WS, ARGKEY, WS,
      LBRACE, KV, RBRACE, WS, RBRACE, WS, FENCE>>

\* a block cut off after the arguments: the object's closing brace is missing
OpenBlock ==
    <<FENCE, LBRACE, NameTok("read_file"), COMMA, ARGKEY, LBRACE, KV, RBRACE, WS, FENCE>>

\* a block whose arguments are not JSON: {"k":1,}
MalformedBlock ==
    <<FENCE, LBRACE, NameTok("write_file"), COMMA, ARGKEY, LBRACE, KV, COMMA, RBRACE,
      RBRACE, FENCE>>

\* {"name":"run_shell_command","arguments":{"k":1}} in the running text
InlineCall ==
    <<LBRACE, NameTok("run_shell_command"), COMMA, ARGKEY, LBRACE, KV, RBRACE, RBRACE>>

TextDeltas ==
    {Delta(t, <<>>) : t \in {WellFormedBlock, PrettyBlock, OpenBlock, MalformedBlock,
                             InlineCall, <<WORD>>}}

\* the server host in single mode
InitText == Init /\ host = "server" /\ ~config.dualMode

NextText ==
    \/ \E r \in Sequential, sid \in {"default"}, m \in UserTexts, a \in {TRUE},
          d \in {"undefined"} : ChatRequest(r, sid, m, a, d)
    \/ \E r \in Sequential, d \in TextDeltas : Chunk(r, d)
    \/ \E r \in Sequential : StreamEnd(r)
    \/ \E r \in Sequential : Dispatch(r)
    \/ \E r \in Sequential, res \in UNION {ToolResults(n) : n \in ToolNames} : ToolReturns(r, res)

SpecText == InitText /\ [][NextText]_vars

(* ------------------------ reading a history --------------------------- *)
SeqToBag(s) ==
    [x \in {s[k] : k \in DOMAIN s} |-> Cardinality({k \in DOMAIN s : s[k] = x})]

\* the tool calls an assistant message lists; an empty slot is no tool call
CallsOf(m) == SelectSeq(m.tool_calls, LAMBDA c : c # Hole)
CallIds(calls) == [k \in DOMAIN calls |-> calls[k].id]

\* the tool-role messages that directly follow position k of history H
RECURSIVE RepliesAfter(_, _)
RepliesAfter(H, k) ==
    IF k + 1 <= Len(H) /\ H[k + 1].role = "tool"
    THEN <<H[k + 1]>> \o RepliesAfter(H, k + 1)
    ELSE <<>>
ReplyIds(H, k) == LET rs == RepliesAfter(H, k) IN [j \in DOMAIN rs |-> rs[j].tool_call_id]

\* every tool call of every assistant message of H has exactly one tool
\* message carrying its id, in the run of tool messages that follows it
EveryCallAnswered(H) ==
    \A k \in DOMAIN H :
        H[k].role = "assistant" => SeqToBag(CallIds(CallsOf(H[k]))) = SeqToBag(ReplyIds(H, k))

TurnEnded(r) == req[r].pc = "ended" /\ req[r].outcome \in {"done", "error"}

(* ------------------------------- C1 ----------------------------------- *)
\* C1: whenever a turn has ended, in Done or on an error, every tool call an
\* assistant message of the turn's history lists has exactly one tool message
\* carrying its id.
C1_TranscriptConsistentAtEnd ==
    \A r \in Slots :
        TurnEnded(r) /\ req[r].h # 0 => EveryCallAnswered(heap[req[r].h])

\* the same, for the turns in which no tool-call list had an empty slot
C1_ConsistentWithoutEmptySlots ==
    \A r \in Slots :
        /\ TurnEnded(r) /\ req[r].h # 0
        /\ \A k \in DOMAIN heap[req[r].h] :
              \A j \in DOMAIN heap[req[r].h][k].tool_calls :
                  heap[req[r].h][k].tool_calls[j] # Hole
        => EveryCallAnswered(heap[req[r].h])

(* ----------------------- approval: C2, C3, C4 ------------------------- *)
InFlight(r) == req[r].pc \notin {"idle", "ended", "exited"}

SideEffecting(name) == name \in {"write_file", "run_shell_command"}

DispatchedOf(r) == {obs[r].dispatched[k] : k \in DOMAIN obs[r].dispatched}

\* C2: in the server host, under autoApprove = false the executable of
\* write_file or run_shell_command is invoked for a call only after an allow
\* decision for that call; under autoApprove = true no decision is requested.
C2_ServerWaitsForApproval ==
    \A r \in Slots :
        host = "server" /\ InFlight(r) =>
            \A d \in DispatchedOf(r) :
                IF req[r].autoApprove
                THEN ~d.prompted
                ELSE SideEffecting(d.call.name) /\ d.invoked => d.answer = "yes"

\* C3: in the terminal host the prompt is requested for a call exactly when
\* its name is write_file or run_shell_command, and the executable of these two
\* is invoked only after the prompt for that call returned true.
C3_PromptExactlyForSideEffecting ==
    \A r \in Slots :
        host = "terminal" =>
            \A d \in DispatchedOf(r) :
                /\ d.prompted <=> SideEffecting(d.call.name)
                /\ SideEffecting(d.call.name) /\ d.invoked => d.answer = "yes"

\* C3, as the code has it: the prompt is requested exactly for the calls named
\* write_file or run_shell_command whose arguments parse; a call whose arguments
\* do not parse is answered without a prompt and never invoked.
C3_PromptForParsedSideEffecting ==
    \A r \in Slots :
        host = "terminal" =>
            \A d \in DispatchedOf(r) :
                /\ d.prompted <=> SideEffecting(d.call.name) /\ JsonParses(d.call.arguments)
                /\ d.answer # "none" => d.prompted
                /\ SideEffecting(d.call.name) /\ d.invoked => d.answer = "yes"
                /\ ~JsonParses(d.call.arguments) => ~d.invoked

C3_Witness ==
    \E r \in Slots :
        /\ host = "terminal"
        /\ \E d \in DispatchedOf(r) :
              SideEffecting(d.call.name) /\ d.prompted /\ d.answer = "yes" /\ d.invoked
        /\ \E d \in DispatchedOf(r) : ~SideEffecting(d.call.name) /\ ~d.prompted /\ d.invoked

Last(s) == s[Len(s)]

\* the step in which the prompt of turn r returns false
DenyStep(r) ==
    /\ req[r].pc = "confirm"
    /\ Len(obs'[r].dispatched) = Len(obs[r].dispatched)
    /\ Last(obs'[r].dispatched).answer = "no"

\* C4: when the user denies a tool call the tool is not run, a tool message
\* with the call's id and the denial text is appended, no error is raised, and
\* the turn goes on: to the next tool call of the round if there is one, to a
\* further model request otherwise.  A denied call is never invoked later.
C4_DenialIsAnOrdinaryResult ==
    /\ [][\A r \in Slots : DenyStep(r) =>
            LET call == req[r].toolCalls[req[r].i]
                h == req[r].h
            IN  /\ req'[r].h = h
                /\ heap'[h] = Append(heap[h], ToolMsg(call.id, DeniedText))
                /\ ~Last(obs'[r].dispatched).invoked
                /\ req'[r].outcome = "none"
                /\ req'[r].events = req[r].events
                /\ IF req[r].i < Len(req[r].toolCalls)
                   THEN /\ req'[r].pc = "dispatch"
                        /\ req'[r].i = req[r].i + 1
                        /\ req'[r].toolCalls = req[r].toolCalls
                        /\ obs'[r].requests = obs[r].requests
                   ELSE /\ req'[r].pc = "streaming"
                        /\ obs'[r].requests =
                              Append(obs[r].requests,
                                     ModelRequest(EngineModel(req[r]), heap'[h], TRUE))]_vars
    /\ [](\A r \in Slots : \A d \in DispatchedOf(r) : d.answer = "no" => ~d.invoked)

\* a denied call, the call after it dispatched, and the next request issued
C4_Witness ==
    \E r \in Slots :
        /\ Len(obs[r].requests) = 2
        /\ \E k \in DOMAIN obs[r].dispatched :
              /\ obs[r].dispatched[k].answer = "no"
              /\ k < Len(obs[r].dispatched)
              /\ \E j \in DOMAIN heap[req[r].h] :
                    heap[req[r].h][j] = ToolMsg(obs[r].dispatched[k].call.id, DeniedText)

(* ------------------------ dual-phase history: C5 ---------------------- *)
IsPrefix(s, t) == Len(s) <= Len(t) /\ SubSeq(t, 1, Len(s)) = s

SystemCount(H) == Cardinality({k \in DOMAIN H : H[k].role = "system"})

\* C5: the executor history of a dual-phase invocation holds the executor
\* system prompt exactly once, at position 0, and begins with the whole
\* executor history the earlier invocations of the session left.
C5_ExecutorHistoryCumulative ==
    \A r \in Slots :
        req[r].mode = "dual" /\ req[r].h # 0 /\ heap[req[r].h] # <<>> =>
            LET H == heap[req[r].h] IN
            /\ H[1] = SystemMsg(EXECUTING_SYSTEM_PROMPT)
            /\ SystemCount(H) = 1
            /\ IsPrefix(obs[r].prevExec, H)

\* the same, in the terminal host alone
C5_TerminalExecutorHistoryCumulative == host = "terminal" => C5_ExecutorHistoryCumulative

(* ------------------------ transcript shape: C6, C7 -------------------- *)
Histories ==
    {heap[o] : o \in HistIds}
    \cup UNION {{obs[r].requests[k].messages : k \in DOMAIN obs[r].requests} : r \in Slots}

\* the tool message at position k of H answers a call of the nearest assistant
\* message before it, and only tool messages lie between the two
Anchored(H, k) ==
    \E a \in 1..(k - 1) :
        /\ H[a].role = "assistant"
        /\ \A j \in (a + 1)..(k - 1) : H[j].role = "tool"
        /\ \E c \in DOMAIN H[a].tool_calls :
              H[a].tool_calls[c] # Hole /\ H[a].tool_calls[c].id = H[k].tool_call_id

EndsWithRound(H, resp, n) ==
    /\ Len(H) > n
    /\ H[Len(H) - n] = AssistantMsg(resp.content, resp.toolCalls)
    /\ \A j \in 1..n :
          /\ H[Len(H) - n + j].role = "tool"
          /\ H[Len(H) - n + j].tool_call_id = resp.toolCalls[j].id

\* C7: within a round the assistant message is appended first and the tool
\* calls are dispatched one at a time in the order of the finalized list: while
\* call i is dispatched, awaits its prompt or runs, history ends with the
\* assistant message and the tool messages of calls 1..i-1 in that order; the
\* next model request is issued when every call of the round has its tool
\* message, and carries the whole history.
C7_RoundOrder ==
    \A r \in Slots :
        LET H == heap[req[r].h]
            resp == Last(obs[r].responses)
        IN  /\ req[r].pc \in {"dispatch", "confirm", "running"} =>
                /\ resp.toolCalls = req[r].toolCalls
                /\ req[r].i \in 1..Len(req[r].toolCalls)
                /\ EndsWithRound(H, resp, req[r].i - 1)
            /\ req[r].pc = "streaming" =>
                /\ Last(obs[r].requests).messages = H
                /\ obs[r].responses # <<>> => EndsWithRound(H, resp, Len(resp.toolCalls))

\* the second request of a turn, issued after a round of two tool calls
C7_Witness ==
    \E r \in Slots :
        /\ req[r].pc = "streaming"
        /\ obs[r].responses # <<>>
        /\ Len(Last(obs[r].responses).toolCalls) = 2
        /\ Len(RepliesAfter(heap[req[r].h], Len(heap[req[r].h]) - 2)) = 2

(* ---------------------------- scenarios: C8, C9 ----------------------- *)
\* the requests turn r made of the turn engine (the enhancer's carry no tools)
EngineRequests(r) == SelectSeq(obs[r].requests, LAMBDA q : q.tools)

\* C8: a turn whose first response has no tool calls, native or extracted from
\* its text, ends in Done with history = the history before the user message +
\* the user message + one assistant message, after one model request.
C8_NoToolRoundTrip ==
    \A r \in Slots :
        obs[r].responses # <<>> /\ obs[r].responses[1].toolCalls = <<>> =>
            LET H == heap[req[r].h]
                n == Len(obs[r].orig)
            IN  /\ req[r].pc = "ended" /\ req[r].outcome = "done"
                /\ Len(EngineRequests(r)) = 1
                /\ Len(H) = n + 2
                /\ SubSeq(H, 1, n) = obs[r].orig
                /\ H[n + 1].role = "user"
                /\ SubSeq(H, 1, n + 1) = EngineRequests(r)[1].messages
                /\ H[n + 2] = AssistantMsg(obs[r].responses[1].content, <<>>)

\* such a turn, on a history that had earlier messages, answered with text
C8_Witness ==
    \E r \in Slots :
        /\ obs[r].responses # <<>> /\ obs[r].responses[1].toolCalls = <<>>
        /\ obs[r].responses[1].content # <<>>
        /\ Len(obs[r].orig) > 1

\* the first response of turn r carried the one tool call list_files({}) and
\* the second was the plain text "done"
ListThenDone(r) ==
    /\ Len(obs[r].responses) = 2
    /\ obs[r].responses[1].toolCalls = <<ToolCall("call_a", "list_files", <<LBRACE, RBRACE>>)>>
    /\ obs[r].responses[2] = [content |-> <<WORD>>, native |-> <<>>, toolCalls |-> <<>>]

\* the messages of the turn's history after the turn's user message
NewMessages(r) ==
    SubSeq(heap[req[r].h], Len(obs[r].orig) + 2, Len(heap[req[r].h]))

\* C9: after a first response with the one tool call list_files({}) and a
\* second response "done" without tool calls, history has exactly 4 new
\* messages after the user message and the turn has ended in Done.
C9_FourNewMessages ==
    \A r \in Slots :
        ListThenDone(r) =>
            /\ req[r].pc = "ended" /\ req[r].outcome = "done"
            /\ Len(NewMessages(r)) = 4

\* C9, as the code has it: the new messages are three, the assistant message
\* with the call, the tool result, and the final assistant message.
C9_ThreeNewMessages ==
    \A r \in Slots :
        ListThenDone(r) =>
            LET new == NewMessages(r)
                call == obs[r].responses[1].toolCalls[1]
            IN  /\ req[r].pc = "ended" /\ req[r].outcome = "done"
                /\ Len(new) = 3
                /\ new[1] = AssistantMsg(obs[r].responses[1].content, <<call>>)
                /\ new[2].role = "tool" /\ new[2].tool_call_id = call.id
                /\ new[2].content \in ToolResults("list_files")
                /\ new[3] = AssistantMsg(<<WORD>>, <<>>)
                /\ Len(EngineRequests(r)) = 2

C9_Witness == \E r \in Slots : ListThenDone(r) /\ req[r].outcome = "done"

(* --------------------------- transport error: C10 --------------------- *)
\* the step in which a request of turn r, or its stream, fails
TransportErrorStep(r) ==
    /\ req[r].pc \in {"enhancing", "streaming"}
    /\ req'[r].pc = "ended"
    /\ req'[r].outcome = "error"

ErrorEvents(events) == SelectSeq(events, LAMBDA e : e.type = "error")

\* C10: a transport error while a response is requested or streamed ends the
\* turn.  The step leaves every history as it was (no assistant message for the
\* interrupted response), issues no request, and reports the error once; from
\* then on, until another turn starts, the turn requests and dispatches nothing
\* and its history does not change.
C10_TransportErrorEndsTurn ==
    /\ [][\A r \in Slots : TransportErrorStep(r) =>
            /\ heap' = heap
            /\ req'[r].h = req[r].h
            /\ obs' = obs
            /\ req'[r].events = Append(req[r].events, Event("error", TransportError))
            /\ Len(ErrorEvents(req'[r].events)) = 1]_vars
    /\ [][\A r \in Slots :
            req[r].pc = "ended" /\ req[r].outcome = "error" /\ used'.turns = used.turns =>
                /\ req'[r] = req[r] \/ req'[r].pc = "exited"
                /\ obs'[r] = obs[r] \/ req'[r].pc = "exited"
                /\ req'[r].pc = "ended" /\ req[r].h # 0 =>
                      heap'[req[r].h] = heap[req[r].h]]_vars

\* a turn ended by a transport error on its second request, after a tool round
C10_Witness ==
    \E r \in Slots :
        /\ req[r].pc = "ended" /\ req[r].outcome = "error"
        /\ Last(req[r].events) = Event("error", TransportError)
        /\ Len(obs[r].requests) = 2 /\ Len(obs[r].responses) = 1
        /\ obs[r].dispatched # <<>>

(* ------------------------ tool failures: C11 - C14 -------------------- *)
\* the call turn r is about to dispatch, prompts for, or runs
CurrentCall(r) == req[r].toolCalls[req[r].i]

\* the step of turn r goes on with the round: to the next tool call if there is
\* one, to a further model request that carries the whole history otherwise
GoesOn(r) ==
    /\ req'[r].outcome = "none"
    /\ req'[r].h = req[r].h
    /\ IF req[r].i < Len(req[r].toolCalls)
       THEN /\ req'[r].pc = "dispatch"
            /\ req'[r].i = req[r].i + 1
            /\ req'[r].toolCalls = req[r].toolCalls
            /\ obs'[r].requests = obs[r].requests
       ELSE /\ req'[r].pc = "streaming"
            /\ obs'[r].requests =
                  Append(obs[r].requests,
                         ModelRequest(EngineModel(req[r]), heap'[req[r].h], TRUE))

\* the step appends to the turn's history the tool message `text` for the call
Answers(r, text) ==
    heap'[req[r].h] = Append(heap[req[r].h], ToolMsg(CurrentCall(r).id, text))

\* the events the step of turn r sends to the observer of the server host
Sends(r, events) ==
    req'[r].events = (IF host = "server" THEN req[r].events \o events ELSE req[r].events)

\* turn r dispatches a call whose arguments do not parse
ParseFailureStep(r) ==
    /\ req[r].pc = "dispatch" /\ req'[r] # req[r]
    /\ CurrentCall(r) # Hole
    /\ ~JsonParses(CurrentCall(r).arguments)

\* C11: for a finalized tool call whose arguments do not parse as JSON,
\* dispatch appends the tool message 'Failed to parse tool arguments' with the
\* call's id, asks for no approval, invokes no tool and does not look the name
\* up (an unknown name gets the same message, and no start event is sent), and
\* the turn goes on with the next tool call or a further model request.
C11_ParseFailureIsLocal ==
    [][\A r \in Slots : ParseFailureStep(r) =>
          /\ Answers(r, ParseFailureText)
          /\ Last(obs'[r].dispatched) = Dispatched(req[r].i, CurrentCall(r), FALSE)
          /\ Sends(r, <<Event("tool_error", CurrentCall(r).name)>>)
          /\ GoesOn(r)]_vars

\* a call with an unknown name whose arguments do not parse, answered with the
\* parse failure, the call after it dispatched, and the next request issued
C11_Witness ==
    \E r \in Slots :
        /\ Len(EngineRequests(r)) = 2
        /\ \E k \in DOMAIN obs[r].dispatched :
              /\ ~JsonParses(obs[r].dispatched[k].call.arguments)
              /\ obs[r].dispatched[k].call.name \notin ToolNames
              /\ k < Len(obs[r].dispatched)
              /\ \E j \in DOMAIN heap[req[r].h] :
                    heap[req[r].h][j] = ToolMsg(obs[r].dispatched[k].call.id, ParseFailureText)

\* turn r dispatches a call whose name is none of the four tools
UnknownToolStep(r) ==
    /\ req[r].pc = "dispatch" /\ req'[r] # req[r]
    /\ CurrentCall(r) # Hole
    /\ CurrentCall(r).name \notin ToolNames

\* C12: for any tool call whose name is not one of the four registered tools,
\* dispatch appends a tool message with the 'unknown tool' text and the turn
\* goes on to a further model request.
C12_UnknownToolAnswered ==
    [][\A r \in Slots : UnknownToolStep(r) =>
          /\ Answers(r, UnknownToolText(host))
          /\ GoesOn(r)]_vars

\* C12, as the code has it: the arguments are parsed before the name is looked
\* up, so the 'unknown tool' message is for the calls with an unknown name
\* whose arguments parse; no approval is asked and nothing is invoked.
C12_UnknownToolWithParsedArguments ==
    [][\A r \in Slots : UnknownToolStep(r) /\ JsonParses(CurrentCall(r).arguments) =>
          /\ Answers(r, UnknownToolText(host))
          /\ Last(obs'[r].dispatched) = Dispatched(req[r].i, CurrentCall(r), FALSE)
          /\ Sends(r, <<Event("tool_start", CurrentCall(r).name),
                        Event("tool_result", CurrentCall(r).name)>>)
          /\ GoesOn(r)]_vars

\* an unknown tool answered, the call after it dispatched, the next request issued
C12_Witness ==
    \E r \in Slots :
        /\ Len(EngineRequests(r)) = 2
        /\ \E k \in DOMAIN obs[r].dispatched :
              /\ obs[r].dispatched[k].call.name \notin ToolNames
              /\ k < Len(obs[r].dispatched)
              /\ \E j \in DOMAIN heap[req[r].h] :
                    heap[req[r].h][j] =
                        ToolMsg(obs[r].dispatched[k].call.id, UnknownToolText(host))

\* turn r invokes a tool whose parsed arguments are null: reading the
\* parameter throws.  The call is let through at dispatch, or by the prompt.
ThrowStep(r) ==
    /\ req'[r] # req[r]
    /\ \/ req[r].pc = "dispatch" /\ ~(host = "terminal" /\ NeedsConfirm(CurrentCall(r).name))
       \/ req[r].pc = "confirm" /\ Last(obs'[r].dispatched).answer = "yes"
    /\ CurrentCall(r) # Hole
    /\ CurrentCall(r).name \in ToolNames
    /\ JsonIsNull(CurrentCall(r).arguments)

\* C13: an exception thrown while a tool is invoked is caught and becomes the
\* tool message 'Error: <message>' with the call's id; the turn is not aborted
\* and goes on with the remaining tool calls of the round.
C13_ToolExceptionIsCaught ==
    [][\A r \in Slots : ThrowStep(r) =>
          /\ Answers(r, TypeErrorText)
          /\ ~Last(obs'[r].dispatched).invoked
          /\ ErrorEvents(req'[r].events) = ErrorEvents(req[r].events)
          /\ GoesOn(r)]_vars

\* a call that threw, answered, and the call after it dispatched
C13_Witness ==
    \E r \in Slots :
        \E k \in DOMAIN obs[r].dispatched :
            /\ obs[r].dispatched[k].call.name \in ToolNames
            /\ JsonIsNull(obs[r].dispatched[k].call.arguments)
            /\ k < Len(obs[r].dispatched)
            /\ \E j \in DOMAIN heap[req[r].h] :
                  heap[req[r].h][j] = ToolMsg(obs[r].dispatched[k].call.id, TypeErrorText)

\* the tool events of a sequence of observer events
ToolEvents(events) ==
    SelectSeq(events, LAMBDA e : e.type \in {"tool_start", "tool_result", "tool_error"})

\* events reports the dispatches ds, each as a start event and then one result
\* or error event for the same name; the last one has only started when running
RECURSIVE StartThenOutcome(_, _, _)
StartThenOutcome(events, ds, running) ==
    IF ds = <<>> THEN events = <<>>
    ELSE IF running /\ Len(ds) = 1 THEN events = <<Event("tool_start", ds[1].call.name)>>
    ELSE /\ Len(events) >= 2
         /\ events[1] = Event("tool_start", ds[1].call.name)
         /\ events[2] \in {Event("tool_result", ds[1].call.name),
                            Event("tool_error", ds[1].call.name)}
         /\ StartThenOutcome(SubSeq(events, 3, Len(events)), Tail(ds), running)

\* C14: every dispatch of a tool call, whatever its outcome, is reported to the
\* observer as a start event followed by exactly one result or error event for
\* the same tool name.
C14_StartThenOneOutcome ==
    \A r \in Slots :
        host = "server" =>
            StartThenOutcome(ToolEvents(req[r].events), obs[r].dispatched,
                             req[r].pc = "running")

\* as StartThenOutcome, but a call whose arguments do not parse is reported by
\* one error event and no start event
RECURSIVE StartUnlessParseFailure(_, _, _)
StartUnlessParseFailure(events, ds, running) ==
    IF ds = <<>> THEN events = <<>>
    ELSE IF ~JsonParses(ds[1].call.arguments)
    THEN /\ Len(events) >= 1
         /\ events[1] = Event("tool_error", ds[1].call.name)
         /\ StartUnlessParseFailure(Tail(events), Tail(ds), running)
    ELSE IF running /\ Len(ds) = 1 THEN events = <<Event("tool_start", ds[1].call.name)>>
    ELSE /\ Len(events) >= 2
         /\ events[1] = Event("tool_start", ds[1].call.name)
         /\ events[2] \in {Event("tool_result", ds[1].call.name),
                            Event("tool_error", ds[1].call.name)}
         /\ StartUnlessParseFailure(SubSeq(events, 3, Len(events)), Tail(ds), running)

\* what the code does: start and one outcome for the calls whose arguments
\* parse, the error event alone for the others
C14_StartUnlessParseFailure ==
    \A r \in Slots :
        host = "server" =>
            StartUnlessParseFailure(ToolEvents(req[r].events), obs[r].dispatched,
                                    req[r].pc = "running")

(* --------------------------- accumulator: C15, C16 -------------------- *)
\* the fragments of fs that carry index i
Of(fs, i) == SelectSeq(fs, LAMBDA f : f.index = i)

Monotone(fs) == \A j \in 1..(Len(fs) - 1) : fs[j].index <= fs[j + 1].index

RECURSIVE ConcatNames(_)
ConcatNames(fs) == IF fs = <<>> THEN "" ELSE Head(fs).name \o ConcatNames(Tail(fs))

RECURSIVE ConcatArguments(_)
ConcatArguments(fs) ==
    IF fs = <<>> THEN <<>> ELSE Head(fs).arguments \o ConcatArguments(Tail(fs))

\* the last non-empty id of fs, the empty string when there is none
RECURSIVE LastId(_)
LastId(fs) ==
    IF fs = <<>> THEN ""
    ELSE IF Last(fs).id # "" THEN Last(fs).id
    ELSE LastId(SubSeq(fs, 1, Len(fs) - 1))

\* each call of fs as one fragment, in the order of the indices
RECURSIVE UnfragmentedFrom(_, _)
UnfragmentedFrom(fs, i) ==
    IF i \notin Indices THEN <<>>
    ELSE (IF Of(fs, i) = <<>> THEN <<>>
          ELSE <<Fragment(i, LastId(Of(fs, i)), ConcatNames(Of(fs, i)),
                          ConcatArguments(Of(fs, i)))>>)
         \o UnfragmentedFrom(fs, i + 1)
Unfragmented(fs) == UnfragmentedFrom(fs, 0)

\* C15: when the indices of the fragments fed so far never decrease, the tool
\* call at each index has as name and arguments the concatenation, in arrival
\* order, of that index's pieces, and the list is the one that feeding each
\* call as a single fragment gives, whatever the chunking.
C15_FragmentsConcatenate ==
    Monotone(bench.fed) =>
        /\ bench.out.toolCalls = ApplyFragments(NewAccum, Unfragmented(bench.fed)).toolCalls
        /\ \A i \in Indices :
              Of(bench.fed, i) # <<>> =>
                  /\ bench.out.toolCalls[i + 1].name = ConcatNames(Of(bench.fed, i))
                  /\ bench.out.toolCalls[i + 1].arguments = ConcatArguments(Of(bench.fed, i))

\* the second call of a response put together from three fragments: two name
\* pieces and two argument pieces
C15_Witness ==
    /\ Monotone(bench.fed) /\ Len(bench.fed) = 3
    /\ Len(Of(bench.fed, 1)) = 3
    /\ bench.out.toolCalls[2].name = "read_file"
    /\ bench.out.toolCalls[2].arguments = <<LBRACE, KV>>

\* C16: the id of an accumulated tool call is the id of the last fragment of
\* its index that carried a non-empty id, and the empty string when no
\* fragment carried one; ids are never concatenated.
C16_LastIdWins ==
    \A i \in Indices :
        Of(bench.fed, i) # <<>> => bench.out.toolCalls[i + 1].id = LastId(Of(bench.fed, i))

\* a call whose first fragment had no id, given an id and then another one
C16_Witness ==
    \E i \in Indices :
        /\ Len(Of(bench.fed, i)) = 3
        /\ Of(bench.fed, i)[1].id = ""
        /\ Of(bench.fed, i)[2].id = "call_a"
        /\ Of(bench.fed, i)[3].id = "call_b"
        /\ bench.out.toolCalls[i + 1].id = "call_b"

(* ----------------------- fallback extraction: C17 --------------------- *)
\* the responses the turns in the slots have received so far
Responses == UNION {{obs[r].responses[k] : k \in DOMAIN obs[r].responses} : r \in Slots}

\* C17: the fallback extractor is applied to a response only when the
\* accumulator produced no tool call and the text is not empty: with a native
\* tool call the finalized list is the native list, whatever the text holds;
\* with neither there is no tool call; calls taken from the text are the
\* extractor's, and only when there is no native one.
C17_FallbackOnlyWithoutNativeCalls ==
    \A resp \in Responses :
        /\ resp.native # <<>> => resp.toolCalls = resp.native
        /\ resp.native = <<>> /\ resp.content = <<>> => resp.toolCalls = <<>>
        /\ resp.toolCalls # resp.native =>
              /\ resp.native = <<>> /\ resp.content # <<>>
              /\ resp.toolCalls = parseTextToolCalls(resp.content)

\* a response with a native tool call whose text matches a fallback pattern
C17_Witness ==
    \E resp \in Responses :
        /\ resp.native # <<>>
        /\ parseTextToolCalls(resp.content) # <<>>
        /\ resp.toolCalls = resp.native

(* ------------------- the two fallback patterns: C18, C19 -------------- *)
\* the calls the loop over codeBlockRegex leaves
CodeBlockCalls(t) == ExecLoop("codeBlockRegex", t, 1, [calls |-> <<>>, id |-> 0]).calls

Contains(t, p) == \E i \in 1..(Len(t) - Len(p) + 1) : SubSeq(t, i, i + Len(p) - 1) = p

Arguments_k1 == <<LBRACE, KV, RBRACE>>

\* texts with a fenced block of well-formed JSON, and the calls in the block
FencedScenarios ==
    { [text |-> WellFormedBlock,
       calls |-> <<ToolCall(TextToolId(0), "list_files", Arguments_k1)>>],
      [text |-> PrettyBlock,
       calls |-> <<ToolCall(TextToolId(0), "read_file", Arguments_k1)>>],
      [text |-> WellFormedBlock \o InlineCall,
       calls |-> <<ToolCall(TextToolId(0), "list_files", Arguments_k1)>>],
      [text |-> InlineCall \o PrettyBlock,
       calls |-> <<ToolCall(TextToolId(0), "read_file", Arguments_k1)>>] }

\* C18: the two patterns are tried in order and the first wins exclusively: if
\* the fenced-code-block pattern matches anywhere in the text the inline
\* pattern is not attempted, and the calls are exactly those of the fenced
\* blocks, with the embedded JSON as arguments.
C18_FencedBlocksWinExclusively ==
    \A resp \in Responses :
        resp.native = <<>> =>
            /\ Starts("codeBlockRegex", resp.content, 1) # {} =>
                  resp.toolCalls = CodeBlockCalls(resp.content)
            /\ \A sc \in FencedScenarios :
                  resp.content = sc.text => resp.toolCalls = sc.calls

RECURSIVE OnlyDropped(_)
OnlyDropped(t) ==
    \/ t = <<>>
    \/ Head(t) = WORD /\ OnlyDropped(Tail(t))
    \/ /\ Len(t) >= Len(MalformedBlock)
       /\ SubSeq(t, 1, Len(MalformedBlock)) = MalformedBlock
       /\ OnlyDropped(SubSeq(t, Len(MalformedBlock) + 1, Len(t)))

ToolMessages(H) == SelectSeq(H, LAMBDA m : m.role = "tool")

Present(ss, sid) == ss[sid] # NoSession

\* C20: a session comes into the store only in the step of a chat request for
\* its id, and once it is there its identifier stays: a clear request resets
\* the history and does not remove the entry.
C20_ClearKeepsIdentifier ==
    [][\A sid \in SessionIds :
          /\ ~Present(sessions, sid) /\ Present(sessions', sid) =>
                \E r \in Slots : req'[r].sid = sid /\ used'.turns = used.turns + 1
          /\ Present(sessions, sid) => Present(sessions', sid)]_vars

\* what the code does: the entry is there from the chat request on, until a
\* clear request removes it; the next chat request makes a new, empty one
C20_ClearRemovesEntry ==
    [][\A sid \in SessionIds :
          /\ ~Present(sessions, sid) /\ Present(sessions', sid) =>
                \E r \in Slots : req'[r].sid = sid /\ used'.turns = used.turns + 1
          /\ Present(sessions, sid) /\ ~Present(sessions', sid) =>
                req' = req /\ used' = used]_vars

(* --------------------- concurrent requests: C21 ----------------------- *)
\* two handlers work on one history array
Overlap(r, q) ==
    /\ r # q /\ InFlight(r) /\ InFlight(q)
    /\ req[r].h # 0 /\ req[r].h = req[q].h

\* C21: the server host never has two turns in flight on the history of one
\* session: a chat request for an id whose turn has not ended does not append
\* to that history nor send it.
C21_OneTurnPerSession == \A r \in Slots : \A q \in Slots : ~Overlap(r, q)

(* ------------------------ client disconnect: C22 ---------------------- *)
Disconnected(r) == obs[r].closedAt # -1

\* the events written since the client went away
EventsAfterClose(r) == SubSeq(req[r].events, obs[r].closedAt + 1, Len(req[r].events))

HistoryKept(r) ==
    req[r].h # 0 => IsPrefix(obs[r].closedHistory, heap[req[r].h])

\* C22: once the client of a turn has disconnected, no event of any type is
\* emitted for that turn any more, and the history appended up to then is kept.
C22_SilentAfterDisconnect ==
    \A r \in Slots :
        Disconnected(r) => EventsAfterClose(r) = <<>> /\ HistoryKept(r)

\* what the code does: of the events, `done` and `error` are held back after a
\* disconnect; the history is kept
C22_DoneAndErrorHeldBack ==
    \A r \in Slots :
        Disconnected(r) =>
            /\ \A k \in DOMAIN EventsAfterClose(r) :
                  EventsAfterClose(r)[k].type \notin {"done", "error"}
            /\ HistoryKept(r)

(* ------------------------ shell timeout: C23 -------------------------- *)
\* C23: a shell command that still runs when the timeout expires is terminated,
\* and run_shell_command returns the text that tells of the timeout.
C23_TimeoutTerminates ==
    bench.name = "run_shell_command" /\ bench.expired =>
        /\ bench.child # "running"
        /\ bench.pc = "returned" => bench.result = TimedOutText

\* what the code does: the above for the commands that leave SIGTERM its
\* default action
C23_TimeoutEndsDefaultSigterm ==
    /\ bench.name = "run_shell_command" /\ bench.expired
    /\ bench.command.onTerm = "dies"
    => /\ bench.child # "running"
       /\ bench.pc = "returned" => bench.result = TimedOutText

(* ------------------------- tool failures: C24 ------------------------- *)
\* the text starts with `Error:`
ErrorColon(text) == Len(text) >= 2 /\ text[1] = "Error" /\ text[2] = ":"

\* C24: a call of one of the four callables that fails returns a text that
\* starts with `Error:`.
C24_FailuresStartWithErrorColon ==
    bench.pc = "returned" /\ bench.failed => ErrorColon(bench.result)

\* what the code does: a failed call returns a text that starts with the
\* word Error, and no other call does
C24_FailuresStartWithError ==
    bench.pc = "returned" =>
        (bench.failed <=> bench.result # <<>> /\ bench.result[1] = "Error")

(* ----------------------- streamed text: C25 --------------------------- *)
\* the texts of the runs of consecutive content events, each run concatenated;
\* cur is the run being read
RECURSIVE ContentRunsFrom(_, _)
ContentRunsFrom(ev, cur) ==
    IF ev = <<>> THEN (IF cur = <<>> THEN <<>> ELSE <<cur>>)
    ELSE IF Head(ev).type = "content"
    THEN ContentRunsFrom(Tail(ev), cur \o Head(ev).data)
    ELSE (IF cur = <<>> THEN <<>> ELSE <<cur>>) \o ContentRunsFrom(Tail(ev), <<>>)
ContentRuns(ev) == ContentRunsFrom(ev, <<>>)

\* the contents of the assistant messages the turn has appended, those without
\* text left out
TextOf(msgs) == [k \in DOMAIN msgs |-> msgs[k].content]
AssistantTexts(r) ==
    IF req[r].h = 0 THEN <<>>
    ELSE TextOf(SelectSeq(SubSeq(heap[req[r].h], Len(obs[r].orig) + 1, Len(heap[req[r].h])),
                          LAMBDA m : m.role = "assistant" /\ m.content # Null))

\* the text of the response being streamed, when there is some
StreamingText(r) ==
    IF req[r].pc = "streaming" /\ req[r].acc.fullContent # <<>>
    THEN <<req[r].acc.fullContent>> ELSE <<>>

\* a chunk with text arrives in the turn engine
TextArrives(r) ==
    /\ req[r].pc = "streaming" /\ req'[r].pc = "streaming"
    /\ req'[r].acc.fullContent # req[r].acc.fullContent

\* the text a step has added to the response
Arrived(r) ==
    SubSeq(req'[r].acc.fullContent, Len(req[r].acc.fullContent) + 1,
           Len(req'[r].acc.fullContent))

\* C25: in the server host each text fragment of a response is sent as a
\* content event in the step in which it arrives, and the content events of a
\* round, concatenated in order, are the content of the round's assistant
\* message (null when the round had no text); a round cut short by an error
\* has content events and no assistant message.
C25_ContentSurfacedAsItArrives ==
    /\ [][\A r \in Slots : host = "server" /\ TextArrives(r) =>
              req'[r].events = Append(req[r].events, Event("content", Arrived(r)))]_vars
    /\ [](\A r \in Slots : host = "server" =>
              IF req[r].outcome = "error"
              THEN /\ IsPrefix(AssistantTexts(r), ContentRuns(req[r].events))
                   /\ Len(ContentRuns(req[r].events)) <= Len(AssistantTexts(r)) + 1
              ELSE ContentRuns(req[r].events) = AssistantTexts(r) \o StreamingText(r))

\* a response whose text came in two fragments, shown as two events and stored
\* as one assistant message
C25_Witness ==
    \E r \in Slots :
        /\ host = "server" /\ req[r].outcome = "done"
        /\ Cardinality({k \in DOMAIN req[r].events : req[r].events[k].type = "content"}) = 2
        /\ AssistantTexts(r) = << <<WORD, WORD>> >>

(* ----------------------- the enhancing phase: C26 --------------------- *)
\* the turn is in its enhancing phase: the enhancer streams, or the terminal
\* host asks its two questions
Enhancing(r) == req[r].mode = "dual" /\ req[r].pc \in {"enhancing", "showFull", "proceed"}

RECURSIVE EnhancingTextOf(_)
EnhancingTextOf(ev) ==
    IF ev = <<>> THEN <<>>
    ELSE (IF Head(ev).type = "enhancing_content" THEN Head(ev).data ELSE <<>>)
         \o EnhancingTextOf(Tail(ev))

EnhancerRequest(r) ==
    ModelRequest(config.thinkingModel,
                 <<SystemMsg(ENHANCER_SYSTEM_PROMPT), UserMsg(req[r].message)>>, FALSE)

\* C26: a dual-phase turn makes one request to the enhancer, without tools; as
\* long as the enhancing phase lasts nothing is accumulated, finalized,
\* extracted or dispatched; each chunk adds its text and nothing else to the
\* enhanced prompt, which is the user message the executor's first request
\* ends with.
C26_EnhancerOnlyWritesThePrompt ==
    /\ [](\A r \in Slots : req[r].mode = "dual" /\ InFlight(r) =>
              /\ Len(obs[r].requests) >= 1 /\ obs[r].requests[1] = EnhancerRequest(r)
              /\ \A k \in DOMAIN obs[r].requests :
                    k > 1 => obs[r].requests[k].model = config.executingModel
              /\ Enhancing(r) =>
                    /\ Len(obs[r].requests) = 1
                    /\ obs[r].dispatched = <<>> /\ obs[r].responses = <<>>
                    /\ req[r].acc = NewAccum /\ req[r].toolCalls = <<>>
              /\ host = "server" => req[r].enhancedPrompt = EnhancingTextOf(req[r].events)
              /\ Len(obs[r].requests) >= 2 =>
                    Last(obs[r].requests[2].messages) = UserMsg(req[r].enhancedPrompt))
    /\ [][\A r \in Slots : req[r].mode = "dual" /\ InFlight(r) /\ req'[r].mode = "dual"
                              /\ req'[r].pc \notin {"idle", "ended", "exited"} =>
              IF req[r].pc = "enhancing" /\ used'.chunks = used.chunks + 1
              THEN \E d \in Deltas :
                      req'[r].enhancedPrompt = req[r].enhancedPrompt \o d.content
              ELSE req'[r].enhancedPrompt = req[r].enhancedPrompt]_vars

\* the enhancer wrote a tool call as text; the text went to the executor as
\* its user message and nothing was dispatched
C26_Witness ==
    \E r \in Slots :
        /\ req[r].mode = "dual" /\ req[r].pc = "streaming"
        /\ parseTextToolCalls(req[r].enhancedPrompt) # <<>>
        /\ Len(obs[r].requests) = 2
        /\ Last(obs[r].requests[2].messages) = UserMsg(req[r].enhancedPrompt)
        /\ obs[r].dispatched = <<>> /\ obs[r].responses = <<>>

(* ---------------------- separate sessions: C27 ------------------------ *)
SessionHistory(ss, hp, sid) == IF Present(ss, sid) THEN hp[ss[sid].history] ELSE <<>>

\* the step is taken by a handler working for session sid, or clears sid
StepFor(sid) ==
    \/ \E r \in Slots : req'[r] # req[r] /\ req'[r].sid = sid
    \/ Present(sessions, sid) /\ ~Present(sessions', sid)

\* C27: a step of a chat turn or of a clear request for one session id leaves
\* the history of every other session id as it is, also with turns of both
\* in flight; no two sessions hold the same history array.
C27_SessionsDoNotShareHistory ==
    /\ [][\A sid \in SessionIds :
              ~StepFor(sid) =>
                  SessionHistory(sessions', heap', sid) = SessionHistory(sessions, heap, sid)]_vars
    /\ [](\A a \in SessionIds : \A b \in SessionIds :
              a # b /\ Present(sessions, a) /\ Present(sessions, b) =>
                  sessions[a].history # sessions[b].history)

\* turns on the two sessions in flight at a time, one of them a round ahead
C27_Witness ==
    \E r \in Slots : \E q \in Slots :
        /\ InFlight(r) /\ InFlight(q)
        /\ req[r].sid = "default" /\ req[q].sid = "other"
        /\ Present(sessions, "default") /\ Present(sessions, "other")
        /\ Len(SessionHistory(sessions, heap, "default")) = 4
        /\ Len(SessionHistory(sessions, heap, "other")) = 2

(* ---------------------- append-only history: C28 ---------------------- *)
\* each request of the turn carries the messages of the one before it
RequestsGrow(r) ==
    \A j \in DOMAIN EngineRequests(r) : \A k \in 1..(j - 1) :
        IsPrefix(EngineRequests(r)[k].messages, EngineRequests(r)[j].messages)

Dispatching(rq) == rq.pc \in {"dispatch", "confirm", "running"}

\* a step of a turn in flight only appends to the turn's history, and leaves
\* the finalized tool calls alone while they are gone through
TurnAppends(r) ==
    /\ InFlight(r) /\ req'[r].h = req[r].h /\ req[r].h # 0 =>
          IsPrefix(heap[req[r].h], heap'[req[r].h])
    /\ Dispatching(req[r]) /\ Dispatching(req'[r]) => req'[r].toolCalls = req[r].toolCalls

\* a session that is not cleared keeps what is in its history
SessionAppends(sid) ==
    Present(sessions, sid) /\ Present(sessions', sid) =>
        IsPrefix(SessionHistory(sessions, heap, sid), SessionHistory(sessions', heap', sid))

\* the terminal host's two histories keep what is in them until the program ends
TerminalAppends ==
    host = "terminal" /\ (\A r \in Slots : req'[r].pc # "exited") =>
        IsPrefix(heap[1], heap'[1]) /\ IsPrefix(heap[2], heap'[2])

\* the executor history of a session's dual-phase turns keeps what is in it
ExecutorAppends(own) ==
    (own \in SessionIds => Present(sessions, own) /\ Present(sessions', own))
    /\ (\A r \in Slots : req'[r].pc # "exited")
    => IsPrefix(lastExec[own], lastExec'[own])

\* C28: until it is cleared, a history only grows at its end, within a turn
\* and from one turn of the session to the next, the finalized tool calls stay
\* as they are, and each request of the turn engine carries the messages of
\* the request before it.
C28_HistoryAppendOnly ==
    /\ [][/\ \A r \in Slots : TurnAppends(r)
          /\ \A sid \in SessionIds : SessionAppends(sid)
          /\ TerminalAppends
          /\ \A own \in Owners : ExecutorAppends(own)]_vars
    /\ [](\A r \in Slots : RequestsGrow(r))

\* what the code does: the above, except that the executor history of the
\* server host does not go from one dual-phase turn to the next
C28_AppendOnlyButServerExecutor ==
    /\ [][/\ \A r \in Slots : TurnAppends(r)
          /\ \A sid \in SessionIds : SessionAppends(sid)
          /\ TerminalAppends
          /\ host = "terminal" => ExecutorAppends("terminal")]_vars
    /\ [](\A r \in Slots : RequestsGrow(r))

(* ------------------- ids of the extracted calls: C29 ------------------ *)
\* the response took its tool calls from its text
Extracted(resp) == resp.native = <<>> /\ resp.toolCalls # <<>>

\* C29: the tool calls one extraction gives carry the ids text-tool-0,
\* text-tool-1, ... in the order of the matches, whichever pattern found them
\* and however many candidates were dropped before or between them.
C29_TextToolIdsSequential ==
    \A resp \in Responses :
        Extracted(resp) =>
            \A k \in DOMAIN resp.toolCalls : resp.toolCalls[k].id = TextToolId(k - 1)

\* two fenced blocks, both dropped by the first pattern, and the two calls the
\* second pattern found in them
C29_Witness ==
    \E resp \in Responses :
        /\ resp.content = WellFormedBlock \o WellFormedBlock
        /\ ExecLoop("codeBlockRegex", resp.content, 1, [calls |-> <<>>, id |-> 0]).calls = <<>>
        /\ Starts("codeBlockRegex", resp.content, 1) # {}
        /\ CallIds(resp.toolCalls) = <<TextToolId(0), TextToolId(1)>>

(* ------------------- entries of the finalized list: C30 --------------- *)
NoMissingEntry(toolCalls) == \A k \in DOMAIN toolCalls : toolCalls[k] # Hole

\* C30: when the indices of the fragments fed never decrease, wherever they
\* start and whatever values they skip, every entry of the finalized tool-call
\* list is a tool call with its id, name and arguments.
C30_NoMissingEntry ==
    Monotone(bench.fed) => NoMissingEntry(FinalToolCalls(bench.out))

\* what the code does: the list is without a missing entry when the indices
\* start at 0 and skip no value
C30_NoMissingEntryFromZero ==
    /\ Monotone(bench.fed)
    /\ \A i \in Indices : Of(bench.fed, i) # <<>> =>
          \A j \in 0..(i - 1) : Of(bench.fed, j) # <<>>
    => NoMissingEntry(FinalToolCalls(bench.out))

(* ------------------- interleaved fragments: C31 ----------------------- *)
\* the indices the fragments fs carry
IndicesOf(fs) == {fs[k].index : k \in DOMAIN fs}

\* C31: in whatever order the fragments of different indices arrive, the tool
\* call at each index has as name and arguments the concatenation of the
\* pieces of its own index in arrival order, and the list has one position
\* per index up to the highest one seen, none added for an index that returns.
C31_KeyedByIndex ==
    /\ \A i \in IndicesOf(bench.fed) :
          /\ bench.out.toolCalls[i + 1].name = ConcatNames(Of(bench.fed, i))
          /\ bench.out.toolCalls[i + 1].arguments = ConcatArguments(Of(bench.fed, i))
    /\ Len(bench.out.toolCalls) =
          IF bench.fed = <<>> THEN 0 ELSE SetMax(IndicesOf(bench.fed)) + 1

\* fragments of index 0, then of index 1, then of index 0 again
C31_Witness ==
    /\ Len(bench.fed) = 3
    /\ bench.fed[1].index = 0 /\ bench.fed[2].index = 1 /\ bench.fed[3].index = 0
    /\ bench.out.toolCalls[1].name = "read_file"
    /\ bench.out.toolCalls[1].arguments = <<LBRACE>>
    /\ bench.out.toolCalls[2].name = "list_files"
    /\ Len(bench.out.toolCalls) = 2

(* ----------------------- empty arguments: C32 ------------------------- *)
\* turn r dispatches a call for which no arguments were streamed
EmptyArgumentsStep(r) ==
    /\ req[r].pc = "dispatch" /\ req'[r] # req[r]
    /\ CurrentCall(r) # Hole
    /\ CurrentCall(r).arguments = <<>>

\* C32: a finalized tool call whose arguments string is empty is answered with
\* the tool message 'Failed to parse tool arguments'; no tool is invoked and
\* no approval is asked for it, list_files included.
C32_EmptyArgumentsFailToParse ==
    /\ [][\A r \in Slots : EmptyArgumentsStep(r) =>
              /\ Answers(r, ParseFailureText)
              /\ Last(obs'[r].dispatched) = Dispatched(req[r].i, CurrentCall(r), FALSE)
              /\ req'[r].pc \notin {"running", "confirm"}]_vars
    /\ [](\A r \in Slots : \A d \in DispatchedOf(r) :
              d.call.arguments = <<>> => ~d.invoked /\ ~d.prompted)

\* a list_files call without arguments, answered with the parse failure
C32_Witness ==
    \E r \in Slots :
        /\ req[r].h # 0
        /\ \E d \in DispatchedOf(r) :
              /\ d.call = ToolCall("call_g", "list_files", <<>>)
              /\ ~d.invoked
        /\ Last(heap[req[r].h]) = ToolMsg("call_g", ParseFailureText)

(* ------------------- one system prompt per session: C33 --------------- *)
\* the histories of the sessions stored and of the turns in flight
ServerHistories ==
    {SessionHistory(sessions, heap, sid) : sid \in SessionIds}
        \cup {heap[req[r].h] : r \in {q \in Slots : req[q].h # 0}}

SystemAt(h) == {k \in DOMAIN h : h[k].role = "system"}

\* C33: with single-mode chat requests and clear requests only, every
\* non-empty session history starts with the single-model system prompt and
\* holds no other message of role system.
C33_OneSystemPromptFirst ==
    \A h \in ServerHistories :
        h # <<>> => h[1] = SystemMsg(SINGLE_MODEL_PROMPT) /\ SystemAt(h) = {1}

\* the second turn of a session: two user messages behind one system prompt
C33_Witness ==
    /\ host = "server"
    /\ LET h == SessionHistory(sessions, heap, "default")
       IN  /\ Cardinality({k \in DOMAIN h : h[k].role = "user"}) = 2
           /\ SystemAt(h) = {1}
    /\ \E r \in Slots : req[r].sid = "default" /\ req[r].pc = "ended"

(* ------------- dual-mode requests and the session history: C34 -------- *)
\* the step belongs to a dual-mode request of slot r
DualStep(r) == req'[r] # req[r] /\ req'[r].mode = "dual"

\* the messages of a dual-mode request
DualPrompts == {SystemMsg(ENHANCER_SYSTEM_PROMPT), SystemMsg(EXECUTING_SYSTEM_PROMPT)}

\* C34: no step of a dual-mode chat request on the server changes the history
\* stored in its session, the executing phase works on an array of its own,
\* and the requests of a single-mode turn carry none of the dual-mode prompts.
C34_DualModeLeavesSessionHistory ==
    /\ [][\A r \in Slots : DualStep(r) =>
              SessionHistory(sessions', heap', req'[r].sid)
                  = SessionHistory(sessions, heap, req'[r].sid)]_vars
    /\ [](\A r \in Slots :
              req[r].mode = "dual" /\ req[r].h # 0 =>
                  \A sid \in SessionIds : sessions[sid].history # req[r].h)
    /\ [](\A r \in Slots :
              req[r].mode = "single" =>
                  \A k \in DOMAIN obs[r].requests :
                      \A j \in DOMAIN obs[r].requests[k].messages :
                          obs[r].requests[k].messages[j] \notin DualPrompts)

\* a single-mode turn after a dual-mode turn of the same session that ran a
\* tool: the stored history holds the system prompt and the one user message
C34_Witness ==
    \E r \in Slots :
        /\ host = "server"
        /\ req[r].mode = "single" /\ req[r].pc = "streaming" /\ req[r].sid = "default"
        /\ Len(lastExec["default"]) >= 4
        /\ Len(SessionHistory(sessions, heap, "default")) = 2
        /\ Len(obs[r].requests) = 1

(* ------------- the executing phase that is not started: C35 ----------- *)
\* the enhancing phase of turn r ends in an error
EnhancingFails(r) ==
    req[r].pc \in {"enhancing", "showFull"} /\ req'[r].pc = "ended" /\ req'[r].outcome = "error"

\* the user declines to execute the enhanced prompt
Declines(r) ==
    req[r].pc = "proceed" /\ req'[r].pc = "ended" /\ req'[r].outcome = "cancelled"

\* the turn has asked the enhancer only
OnlyEnhancerAsked(ob) ==
    /\ Len(ob.requests) = 1
    /\ ob.requests[1].messages[1] = SystemMsg(ENHANCER_SYSTEM_PROMPT)
    /\ ob.dispatched = <<>>

\* C35: a turn that ends by an error of the enhancing phase, or by the user's
\* refusal to execute, has made the enhancer's request only, has dispatched no
\* tool and leaves every history, the persistent executor history included,
\* as it was; until the phase has ended nothing else is asked.
C35_NoExecutingAfterFailureOrRefusal ==
    /\ [][\A r \in Slots : EnhancingFails(r) \/ Declines(r) =>
              /\ OnlyEnhancerAsked(obs'[r])
              /\ heap' = heap
              /\ lastExec' = lastExec
              /\ \A k \in DOMAIN req'[r].events :
                    req'[r].events[k] # Event("phase_start", "executing")]_vars
    /\ [](\A r \in Slots :
              req[r].pc \in {"enhancing", "showFull", "proceed"} => OnlyEnhancerAsked(obs[r]))

\* the user declines in the second turn; the executor history of the first
\* turn, with its tool call, is still there
C35_Witness ==
    \E r \in Slots :
        /\ host = "terminal"
        /\ req[r].pc = "ended" /\ req[r].outcome = "cancelled"
        /\ OnlyEnhancerAsked(obs[r])
        /\ Len(heap[2]) >= 4
        /\ lastExec["terminal"] = heap[2]

(* ------------------------ the terminal event: C36 --------------------- *)
TerminalEventTypes == {"done", "error"}

TerminalEventsAt(events) == {k \in DOMAIN events : events[k].type \in TerminalEventTypes}

\* the client of the request of slot r has not disconnected
StaysConnected(r) == obs[r].closedAt = -1

\* C36: a chat request whose client stays connected has, once its handler has
\* returned, exactly one terminal event, done if the turn ended normally and
\* error if it failed, and that event is the last one of the request; while
\* the handler runs no terminal event has been sent, and after it has returned
\* nothing more is sent.
C36_OneTerminalEventLast ==
    /\ [](\A r \in Slots :
              host = "server" /\ StaysConnected(r) =>
                  IF req[r].pc = "ended"
                  THEN /\ TerminalEventsAt(req[r].events) = {Len(req[r].events)}
                       /\ Last(req[r].events).type = req[r].outcome
                  ELSE TerminalEventsAt(req[r].events) = {})
    /\ [][\A r \in Slots :
              req[r].pc = "ended" /\ req'[r].pc = "ended" => req'[r].events = req[r].events]_vars

\* a turn that fails after a tool call has run: the error event is the last
\* of its events, and the client is still there
C36_Witness ==
    \E r \in Slots :
        /\ host = "server" /\ StaysConnected(r)
        /\ req[r].pc = "ended" /\ req[r].outcome = "error"
        /\ Len(req[r].events) >= 3
        /\ \E k \in DOMAIN req[r].events : req[r].events[k].type = "tool_result"
        /\ Last(req[r].events).type = "error"

(* ------------------------- phase events: C37 -------------------------- *)
PhaseOrder ==
    << Event("phase_start", "enhancing"), Event("phase_end", "enhancing"),
       Event("phase_start", "executing"), Event("phase_end", "executing"),
       Event("done", "") >>

IsPhaseEvent(ev) == ev.type \in {"phase_start", "phase_end", "done"}

TurnEventTypes == {"content", "tool_start", "tool_result", "tool_error"}

\* the phase events of the request come in the order of PhaseOrder
PhasesOrdered(events) == IsPrefix(SelectSeq(events, IsPhaseEvent), PhaseOrder)

\* the events of the turn engine lie inside the executing phase
TurnEventsInsideExecuting(events) ==
    \A k \in DOMAIN events :
        events[k].type \in TurnEventTypes =>
            /\ \E i \in 1..(k - 1) : events[i] = Event("phase_start", "executing")
            /\ \A i \in 1..(k - 1) : events[i] # Event("phase_end", "executing")

\* every phase that was started is ended before the terminal event
PhasesClosed(events) ==
    \A t \in TerminalEventsAt(events) : \A k \in 1..(t - 1) :
        events[k].type = "phase_start" =>
            \E j \in (k + 1)..(t - 1) : events[j] = Event("phase_end", events[k].data)

\* C37: in a dual-mode request the phase events come in the order
\* phase_start(enhancing), phase_end(enhancing), phase_start(executing),
\* phase_end(executing), done; content and tool events lie between the start
\* and the end of the executing phase; and every phase_start has its phase_end
\* before the terminal event of the request, also when the phase fails.
C37_PhasesOrderedAndClosed ==
    \A r \in Slots :
        host = "server" /\ req[r].mode = "dual" =>
            /\ PhasesOrdered(req[r].events)
            /\ TurnEventsInsideExecuting(req[r].events)
            /\ PhasesClosed(req[r].events)

\* what holds of the handler: the order and the bracket of the turn's events
\* in every request, the closing phase_end in the requests that end with done
C37_PhasesClosedWhenDone ==
    \A r \in Slots :
        host = "server" /\ req[r].mode = "dual" =>
            /\ PhasesOrdered(req[r].events)
            /\ TurnEventsInsideExecuting(req[r].events)
            /\ (req[r].pc = "ended" /\ req[r].outcome = "done" => PhasesClosed(req[r].events))

(* -------------------- the model of a turn: C38 ------------------------ *)
\* C38: the requests the turn engine makes within one turn all name the same
\* model, whatever configuration request is handled while the turn runs.
C38_OneModelPerTurn ==
    \A r \in Slots :
        \A j \in DOMAIN EngineRequests(r) : \A k \in DOMAIN EngineRequests(r) :
            EngineRequests(r)[j].model = EngineRequests(r)[k].model

\* what holds of the engine: each request names the model the configuration
\* holds at the moment the request is made
C38_ModelReadAtEachRequest ==
    [][\A r \in Slots :
          Len(obs'[r].requests) = Len(obs[r].requests) + 1 /\ req'[r].pc = "streaming" =>
              Last(obs'[r].requests).model =
                  IF req'[r].mode = "dual" THEN config.executingModel ELSE config.model]_vars

(* ----------------- a clear while a turn is in flight: C39 ------------- *)
\* the session of turn q was cleared while q runs: q works on an array that
\* the session map no longer holds
Detached(q) ==
    /\ InFlight(q) /\ req[q].mode = "single" /\ req[q].h # 0
    /\ sessions[req[q].sid].history # req[q].h

\* slot r takes a chat request
Arrives(r) == req[r].pc \in {"idle", "ended"} /\ req'[r].pc \notin {"idle", "ended"}

\* C39: after a clear of its session, the steps of a turn in flight leave the
\* history stored under the session id as it is, and a chat request that
\* arrives for the id meanwhile sends a fresh history, the system prompt and
\* its own user message, in an array the turn in flight does not hold.
C39_ClearedTurnAppendsElsewhere ==
    /\ [][\A q \in Slots : Detached(q) /\ req'[q] # req[q] =>
              SessionHistory(sessions', heap', req[q].sid)
                  = SessionHistory(sessions, heap, req[q].sid)]_vars
    /\ [][\A r \in Slots : \A q \in Slots \ {r} :
              Arrives(r) /\ Detached(q) /\ req'[r].sid = req[q].sid
              /\ ~Present(sessions, req[q].sid) =>
                  /\ obs'[r].requests[1].messages
                        = <<SystemMsg(SINGLE_MODEL_PROMPT), UserMsg(req'[r].message)>>
                  /\ req'[r].h # req[q].h]_vars

\* the cleared turn has gone on to its second round while the request that
\* came after the clear works on a history of two messages
C39_Witness ==
    \E q \in Slots : \E r \in Slots \ {q} :
        /\ Detached(q) /\ Len(heap[req[q].h]) >= 4
        /\ InFlight(r) /\ req[r].sid = req[q].sid
        /\ req[r].h = sessions[req[r].sid].history
        /\ Len(obs[r].requests) = 1
        /\ Len(obs[r].requests[1].messages) = 2
        /\ Len(heap[req[r].h]) = 2

(* ------------------- the turn loop terminates: C40 -------------------- *)
\* slot r is inside the loop of the turn engine
InLoop(r) == req[r].pc \in {"streaming", "dispatch", "confirm", "running"}

TurnDone(r) == req[r].pc = "ended" /\ req[r].outcome = "done"

\* the turn ended in the error of a missing entry in the last response's list
EndedOnMissingEntry(r) ==
    /\ req[r].pc = "ended" /\ req[r].outcome = "error"
    /\ obs[r].responses # <<>>
    /\ ~NoMissingEntry(Last(obs[r].responses).toolCalls)

\* the loop is left only by a response without tool calls or by an error, and
\* a response with tool calls is followed by their dispatch
StopsOnNoCallsOrError(r) ==
    /\ InLoop(r) /\ req'[r].pc = "ended" =>
          \/ /\ req'[r].outcome = "done"
             /\ req[r].pc = "streaming" /\ FinalToolCalls(req[r].acc) = <<>>
          \/ req'[r].outcome = "error"
    /\ req[r].pc = "streaming" /\ req'[r].pc # "streaming" /\ FinalToolCalls(req[r].acc) # <<>> =>
          req'[r].pc = "dispatch"

\* C40: the turn loop is left exactly when a response yields no tool call or
\* an error is raised; when every stream ends, every tool invocation and
\* approval returns and the model comes to a response without tool calls, a
\* turn in flight reaches Done.
C40_TurnReachesDone ==
    /\ [][\A r \in Sequential : StopsOnNoCallsOrError(r)]_vars
    /\ \A r \in Sequential : InLoop(r) ~> TurnDone(r)

\* what holds of the loop: it is left as the claim says, and a turn in flight
\* reaches Done unless a response's list has a missing entry
C40_DoneUnlessMissingEntry ==
    /\ [][\A r \in Sequential : StopsOnNoCallsOrError(r)]_vars
    /\ \A r \in Sequential : InLoop(r) ~> (TurnDone(r) \/ EndedOnMissingEntry(r))

====
